---- MODULE Spec2Model ----
(***************************************************************************)
(* A model of the genesis tokenizer (Lexer / NewickLexer), the Newick      *)
(* serializer (NewickProcessor::ToStringRec / ElementToString) and the     *)
(* bipartition plausibility check (Plausibility::SpiderpigFunction).       *)
(*                                                                         *)
(* A text is a sequence of one-character strings.  C++ positions are       *)
(* 0-based: the character at position i of text t is t[i + 1].             *)
(***************************************************************************)
EXTENDS Integers, Sequences, FiniteSets, TLC

VARIABLES
    text,             \* Lexer::text_ (with len_ = Len(text))
    itr,              \* Lexer::itr_
    tokens,           \* Lexer::tokens_
    include_tags,     \* NewickLexer::include_tags
    include_comments, \* Lexer::include_comments
    stepwise,         \* the stepwise argument of the running ProcessString
    pc,               \* position of the caller of the lexer
    result,           \* value returned by the last ProcessString / ProcessStep
    lateCalls,        \* history: calls of ProcessStep made after it had returned false
    steps,            \* history: calls of ProcessStep since Init(text)
    asserted,         \* an assert() of the lexer has failed
    broker,               \* a NewickBroker: the list of its NewickBrokerElements
    print_names,          \* NewickProcessor::print_names
    print_branch_lengths, \* NewickProcessor::print_branch_lengths
    print_comments,       \* NewickProcessor::print_comments
    print_tags,           \* NewickProcessor::print_tags
    out,                  \* the text returned by the last serialization
    outFlags,             \* history: the print flags of the last serialization
    serialized,           \* history: number of serializations so far
    plpc,                  \* SpiderpigFunction: the statement that runs next
    reference_tree,        \* Plausibility::reference_tree
    small_tree,            \* the local small_tree
    reference_ok,          \* history: what FromFile returned for the reference tree
    small_ok,              \* history: what FromFile returned for the small tree
    preorder_id,           \* preorder_id of the reference tree's nodes
    reference_map,         \* std::map name -> preorder id
    euler_ids,             \* the vector euler_ids
    preorder_to_euler_map, \* std::map preorder id -> first index in euler_ids
    rmq_n,                 \* the length handed to RMQ_succinct
    preorder_ids,          \* the vector of pairs <<id, 1 for a leaf and 0 for an ancestor>>
    loop_i,                \* the counter i of the query loop
    queries,               \* history: number of rmq.query calls
    verdict,               \* what the caller can observe of the outcome
    ub,                    \* history: behaviour undefined by the language has occurred
    rmq_array,  \* the array that an RMQ_succinct was built from
    rmq_range,  \* history: the range <<x, y>> of the last query, <<>> before it
    rmq_answer, \* history: what the last query returned
    it_tree,    \* the tree whose nodes' links are iterated
    it_node,    \* the node that BeginLinks was called on, -1 before the call
    it_link,    \* TreeNodeIteratorLinks::link_, NullLink for nullptr
    it_start,   \* TreeNodeIteratorLinks::start_
    it_visited, \* history: the links that the iterator has stood on
    log_pc,      \* per thread: the statement of Logging::~Logging that runs next
    count_,      \* Logging::count_
    last_clock_, \* Logging::last_clock_
    log_mutex,   \* the thread that holds log_mutex, NoThread when it is free
    ostreams,    \* what has been written to each stream of Logging::ostreams_
    details,     \* Logging::details, the fields that touch the shared state
    now_clock,   \* per thread: the local now_clock
    log_msg,     \* per thread: the local msg
    log_k,       \* per thread: position of the loop over ostreams_
    log_reg,     \* per thread: the value of count_ loaded by count_++
    log_done,    \* history, per thread: log statements completed
    log_time     \* the value that clock() returned last

lexVars == <<text, itr, tokens, include_tags, include_comments, stepwise, pc,
             result, lateCalls, steps, asserted>>

printFlags == <<print_names, print_branch_lengths, print_comments, print_tags>>

serVars == <<broker, print_names, print_branch_lengths, print_comments, print_tags,
             out, outFlags, serialized>>

plVars == <<plpc, reference_tree, small_tree, reference_ok, small_ok, preorder_id,
            reference_map, euler_ids, preorder_to_euler_map, rmq_n, preorder_ids,
            loop_i, queries, verdict, ub>>

rmqVars == <<rmq_array, rmq_range, rmq_answer>>

\* what the operations of the lexer, of the serializer and of the plausibility
\* check leave alone
linkVars == <<it_tree, it_node, it_link, it_start, it_visited>>

logVars == <<log_pc, count_, last_clock_, log_mutex, ostreams, details, now_clock,
             log_msg, log_k, log_reg, log_done, log_time>>

notLexVars == <<serVars, plVars, rmqVars, linkVars, logVars>>

notSerVars == <<lexVars, plVars, rmqVars, linkVars, logVars>>

notPlVars == <<lexVars, serVars, rmqVars, linkVars, logVars>>

notRmqVars == <<lexVars, serVars, plVars, linkVars, logVars>>

notLinkVars == <<lexVars, serVars, plVars, rmqVars, logVars>>

notLogVars == <<lexVars, serVars, plVars, rmqVars, linkVars>>

-----------------------------------------------------------------------------
(* Bounds of the model *)

MaxLen == 3            \* longest text handed to the lexer
MaxLateCalls == 2      \* calls of ProcessStep after it has returned false
MaxBracketTokens == 4  \* longest token list handed to ValidateBrackets directly
MaxNameLen == 2        \* longest node name that is serialized and lexed again
MaxBrokerSize == 4     \* largest broker that is serialized
MaxSerializations == 2 \* serializations of one broker
MaxPrintSize == 4      \* largest broker serialized under every flag setting
MaxReferenceSize == 7  \* most nodes of a reference tree
MaxSmallSize == 4      \* most nodes of a small tree
MaxScanLen == 4        \* longest text handed to the single scanners
MaxLinkTreeSize == 5   \* most nodes of a tree whose links are iterated
MaxFlagLen == 3        \* longest text lexed under every setting of the include flags
MaxLogStatements == 2  \* most log statements that one thread completes

-----------------------------------------------------------------------------
(* Generic helpers *)

Strings(A, n) == UNION {[1..k -> A] : k \in 0..n}

Last(s) == s[Len(s)]

StartsWithAt(t, i, s) ==
    /\ i + Len(s) <= Len(t)
    /\ SubSeq(t, i + 1, i + Len(s)) = s

RECURSIVE StringReplaceAll(_, _, _)
StringReplaceAll(s, search, replace) ==
    IF s = <<>> THEN <<>>
    ELSE IF StartsWithAt(s, 0, search)
         THEN replace \o StringReplaceAll(SubSeq(s, Len(search) + 1, Len(s)), search, replace)
         ELSE <<Head(s)>> \o StringReplaceAll(Tail(s), search, replace)

-----------------------------------------------------------------------------
(* Characters *)

NUL == "NUL"    \* the terminator that text_[len_] holds

Backslash == "BACKSLASH"

\* a byte outside of ASCII, which no table entry gives a type
NonAscii == "NONASCII"

Letters  == {"A", "B", "C", "D", "a", "b", "x", "e", "E"}
Digits   == {"0", "1", "2", "3", "4", "5", "6", "7", "8", "9"}
Whites   == {" ", "\t", "\n", "\r"}
\* the graphic characters NewickLexer turns into symbol characters (the double
\* quote, the backslash and the backtick of its list are left out of the model)
Graphics == {"!", "#", "$", "%", "&", "*", "+", "-", ".", "/", "<", "=",
             ">", "?", "@", "^", "_", "|", "~"}

CharIsDigit(c) == c \in Digits
CharIsSign(c) == c \in {"+", "-"}
CharMatch(c1, c2) ==
    LET lower(c) == IF c = "E" THEN "e" ELSE IF c = "A" THEN "a"
                    ELSE IF c = "B" THEN "b" ELSE c
    IN lower(c1) = lower(c2)

\* the start_char_table_ of the base Lexer, before a derived lexer changes it
DefaultCharType(c) ==
    IF c \in Letters THEN "kSymbol"
    ELSE IF c \in Digits THEN "kNumber"
    ELSE IF c \in Whites THEN "kWhite"
    ELSE IF c = NUL THEN "kError"
    ELSE "kUnknown"

\* the character types after the SetCharType calls of NewickLexer::NewickLexer
CharType(c) ==
    IF c \in {"[", "]"} THEN "kComment"
    ELSE IF c \in {"{", "}"} THEN "kTag"
    ELSE IF c \in {"(", ")"} THEN "kBracket"
    ELSE IF c \in {",", ";"} THEN "kOperator"
    ELSE IF c = "'" THEN "kString"
    ELSE IF c = ":" THEN "kNumber"
    ELSE IF c \in Digits THEN "kSymbol"
    ELSE IF c \in Graphics THEN "kSymbol"
    ELSE DefaultCharType(c)

\* the flags set by NewickLexer::NewickLexer
include_whitespace        == FALSE
glue_sign_to_number       == FALSE
trim_quotation_marks      == TRUE
use_string_escape         == FALSE
use_string_doubled_quotes == TRUE

-----------------------------------------------------------------------------
(* Accessors of the Lexer.  A scanner state is a record                    *)
(*   [itr, tokens, ret, bad]                                               *)
(* ret: the scanner's return value, bad: an assertion failed.              *)

IsEnd(t, i) == i >= Len(t)

GetChar(t, i) == IF i >= 0 /\ i < Len(t) THEN t[i + 1] ELSE NUL

GetCharType(t, i) == CharType(GetChar(t, i))

GetSubstr(t, start, end) == IF start < end THEN SubSeq(t, start + 1, end) ELSE <<>>

Tok(type, pos, value) == [type |-> type, pos |-> pos, value |-> value]

PushToken(toks, type, pos, value) == Append(toks, Tok(type, pos, value))

St(i, toks, ret) == [itr |-> i, tokens |-> toks, ret |-> ret, bad |-> FALSE]

IsError(tok) == tok.type = "kError"

BackIsError(toks) == toks # <<>> /\ IsError(Last(toks))

HasError(toks) == BackIsError(toks)

-----------------------------------------------------------------------------
(* Scanners.  The part of a scanner that follows a loop or a call is an    *)
(* operator of its own that receives the outcome as an argument.           *)

RECURSIVE SkipUntil(_, _, _)
SkipUntil(t, i, to) ==
    IF ~IsEnd(t, i) /\ ~StartsWithAt(t, i, to) THEN SkipUntil(t, i + 1, to) ELSE i

\* Lexer::ScanFromTo after its search loop has stopped at j: [itr, found]
FromToEnd(t, j, to) ==
    IF IsEnd(t, j)
    THEN [itr |-> j, found |-> FALSE]
    ELSE [itr |-> j + Len(to), found |-> TRUE]

\* Lexer::ScanFromTo: [itr, found]
ScanFromTo(t, i, from, to) ==
    IF IsEnd(t, i) \/ ~StartsWithAt(t, i, from)
    THEN [itr |-> i, found |-> FALSE]
    ELSE FromToEnd(t, SkipUntil(t, i + Len(from), to), to)

RECURSIVE SkipType(_, _, _)
SkipType(t, i, type) ==
    IF ~IsEnd(t, i) /\ GetCharType(t, i) = type THEN SkipType(t, i + 1, type) ELSE i

\* a scanner that pushes text [i, j) as one token of the given type
PushRun(t, i, j, toks, type) ==
    St(j, PushToken(toks, type, i, GetSubstr(t, i, j)), TRUE)

\* the ScanUnknown that scans one character at a time
ScanUnknownOneChar(t, i, toks) ==
    St(i + 1, PushToken(toks, "kUnknown", i, GetSubstr(t, i, i + 1)), TRUE)

ScanUnknown(t, i, toks) == PushRun(t, i, SkipType(t, i, "kUnknown"), toks, "kUnknown")

WhitespaceEnd(t, i, j, toks) ==
    St(j,
       IF include_whitespace /\ j > i
       THEN PushToken(toks, "kWhite", i, GetSubstr(t, i, j)) ELSE toks,
       j > i)

ScanWhitespace(t, i, toks) == WhitespaceEnd(t, i, SkipType(t, i, "kWhite"), toks)

ScanSymbol(t, i, toks) == PushRun(t, i, SkipType(t, i, "kSymbol"), toks, "kSymbol")

\* the scan loop of Lexer::ScanNumber: [itr, err]
RECURSIVE NumberLoop(_, _, _, _, _)
NumberLoop(t, start, i, found_d, found_e) ==
    IF IsEnd(t, i) THEN [itr |-> i, err |-> FALSE]
    ELSE IF CharIsDigit(GetChar(t, i)) THEN NumberLoop(t, start, i + 1, found_d, found_e)
    ELSE IF GetChar(t, i) = "." THEN
        IF found_d \/ IsEnd(t, i + 1) \/ ~CharIsDigit(GetChar(t, i + 1))
        THEN [itr |-> i, err |-> FALSE]
        ELSE NumberLoop(t, start, i + 1, TRUE, found_e)
    ELSE IF CharMatch(GetChar(t, i), "e") THEN
        IF \/ found_e
           \/ i = 0
           \/ ~CharIsDigit(GetChar(t, i - 1))
           \/ IsEnd(t, i + 1)
           \/ (~CharIsDigit(GetChar(t, i + 1)) /\ ~CharIsSign(GetChar(t, i + 1)))
        THEN [itr |-> i, err |-> (i = start)]
        ELSE NumberLoop(t, start, i + 1, found_d, TRUE)
    ELSE IF CharIsSign(GetChar(t, i)) THEN
        IF /\ ~(i = start /\ ~IsEnd(t, i + 1) /\ CharIsDigit(GetChar(t, i + 1)))
           /\ ~(/\ found_e
                /\ CharMatch(GetChar(t, i - 1), "e")
                /\ ~IsEnd(t, i + 1)
                /\ CharIsDigit(GetChar(t, i + 1)))
        THEN [itr |-> i, err |-> (i = start)]
        ELSE NumberLoop(t, start, i + 1, found_d, found_e)
    ELSE [itr |-> i, err |-> (i = start)]

\* a ScanNumber that never sets err
NumberEndWithoutError(t, start, toks, r) ==
    St(r.itr, PushToken(toks, "kNumber", start, GetSubstr(t, start, r.itr)), TRUE)

\* Lexer::ScanNumber after its scan loop: "create result"
NumberEnd(t, start, toks, r) ==
    IF r.err
    THEN St(r.itr, PushToken(toks, "kError", r.itr, <<"Malformed number.">>), FALSE)
    ELSE St(r.itr, PushToken(toks, "kNumber", start, GetSubstr(t, start, r.itr)), TRUE)

LexerScanNumber(t, i, toks) == NumberEnd(t, i, toks, NumberLoop(t, i, i, FALSE, FALSE))

\* the scan loop of Lexer::ScanString: [itr, jump, found_e, found_q]
RECURSIVE StringLoop(_, _, _, _, _, _)
StringLoop(t, qmark, i, jump, found_e, found_q) ==
    IF IsEnd(t, i)
    THEN [itr |-> i, jump |-> jump, found_e |-> found_e, found_q |-> found_q]
    ELSE IF GetChar(t, i) = Backslash /\ use_string_escape
    THEN StringLoop(t, qmark, i + 2, TRUE, TRUE, found_q)
    ELSE IF GetChar(t, i) = qmark /\ GetChar(t, i + 1) = qmark /\ use_string_doubled_quotes
    THEN StringLoop(t, qmark, i + 2, TRUE, found_e, TRUE)
    ELSE IF GetChar(t, i) = qmark
    THEN [itr |-> i + 1, jump |-> jump, found_e |-> found_e, found_q |-> found_q]
    ELSE StringLoop(t, qmark, i + 1, FALSE, found_e, found_q)

\* the value of the string token: doubled quotation marks replaced, marks trimmed
StringValue(res, qmark, found_q) ==
    IF ~trim_quotation_marks
    THEN <<qmark>> \o (IF found_q /\ use_string_doubled_quotes
                       THEN StringReplaceAll(res, <<qmark, qmark>>, <<qmark>>)
                       ELSE res) \o <<qmark>>
    ELSE IF found_q /\ use_string_doubled_quotes
         THEN StringReplaceAll(res, <<qmark, qmark>>, <<qmark>>)
         ELSE res

\* Lexer::ScanString after its scan loop
StringEnd(t, qmark, start, toks, r) ==
    IF r.jump \/ (IsEnd(t, r.itr) /\ ~(GetChar(t, r.itr - 1) = qmark))
    THEN St(r.itr, PushToken(toks, "kError", start - 1, <<"Malformed string.">>), FALSE)
    ELSE St(r.itr,
            PushToken(toks, "kString", start - 1,
                      StringValue(GetSubstr(t, start, r.itr - 1), qmark, r.found_q)),
            TRUE)

ScanString(t, i, toks) ==
    IF IsEnd(t, i + 1)
    THEN St(i + 1, PushToken(toks, "kError", i, <<"Malformed string.">>), FALSE)
    ELSE StringEnd(t, GetChar(t, i), i + 1, toks,
                   StringLoop(t, GetChar(t, i), i + 1, FALSE, FALSE, FALSE))

ScanOperator(t, i, toks) ==
    IF /\ CharIsSign(GetChar(t, i)) /\ glue_sign_to_number
       /\ ~IsEnd(t, i + 1) /\ CharIsDigit(GetChar(t, i + 1))
    THEN LexerScanNumber(t, i, toks)
    ELSE St(i + 1, PushToken(toks, "kOperator", i, GetSubstr(t, i, i + 1)), TRUE)

\* a bracket scanner that pushes its token and stays where it is
ScanBracketInPlace(t, i, toks) ==
    St(i, PushToken(toks, "kBracket", i, GetSubstr(t, i, i + 1)), TRUE)

ScanBracket(t, i, toks) ==
    St(i + 1, PushToken(toks, "kBracket", i, GetSubstr(t, i, i + 1)), TRUE)

\* NewickLexer::ScanComment after its call of ScanFromTo, which gave r
CommentEnd(t, start, toks, inc_comments, r) ==
    IF ~r.found /\ GetChar(t, r.itr) = "["
    THEN St(r.itr, PushToken(toks, "kError", r.itr, <<"Comment not closed.">>), FALSE)
    ELSE St(r.itr,
            IF r.found /\ inc_comments
            THEN PushToken(toks, "kComment", start + 1, GetSubstr(t, start + 1, r.itr - 1))
            ELSE toks,
            r.found)

\* NewickLexer::ScanComment
\* a comment scanner that lets a closing bracket without an opening one pass:
\* no token, nothing consumed, false
ScanCommentSilentCloser(t, i, toks, inc_comments) ==
    IF GetChar(t, i) = "]" THEN St(i, toks, FALSE)
    ELSE CommentEnd(t, i, toks, inc_comments, ScanFromTo(t, i, <<"[">>, <<"]">>))

ScanComment(t, i, toks, inc_comments) ==
    IF GetChar(t, i) = "]"
    THEN St(i, PushToken(toks, "kError", i, <<"Closing comment without opening it.">>), FALSE)
    ELSE CommentEnd(t, i, toks, inc_comments, ScanFromTo(t, i, <<"[">>, <<"]">>))

\* a scanner state with its assertion flag set iff the asserted condition fails
Asserting(s, cond) == [s EXCEPT !.bad = ~cond]

\* NewickLexer::ScanNumber
ScanNumber(t, i, toks) ==
    Asserting(LexerScanNumber(t, i + 1, toks), GetChar(t, i) = ":")

\* NewickLexer::ScanTag after its call of ScanFromTo, which gave r
TagEnd(t, start, toks, inc_tags, r) ==
    IF ~r.found
    THEN St(r.itr, PushToken(toks, "kError", start, <<"Opening tag without closing tag.">>), FALSE)
    ELSE St(r.itr,
            IF inc_tags
            THEN PushToken(toks, "kTag", start + 1, GetSubstr(t, start + 1, r.itr - 1))
            ELSE toks,
            TRUE)

\* a ScanTag that moves past the character it rejects
ScanTagConsuming(t, i, toks, inc_tags) ==
    St(i + 1, PushToken(toks, "kError", i, <<"Closing tag without opening tag.">>), FALSE)

\* NewickLexer::ScanTag
ScanTag(t, i, toks, inc_tags) ==
    IF GetChar(t, i) = "}"
    THEN St(i, PushToken(toks, "kError", i, <<"Closing tag without opening tag.">>), FALSE)
    ELSE Asserting(TagEnd(t, i, toks, inc_tags, ScanFromTo(t, i, <<"{">>, <<"}">>)),
                   GetChar(t, i) = "{")

-----------------------------------------------------------------------------
(* Lexer::ProcessStep *)

\* while (ScanWhitespace() || ScanComment()) continue;
\* w: the outcome of ScanWhitespace, c: the outcome of ScanComment
RECURSIVE WhiteCommentLoop(_, _, _, _), AfterWhitespace(_, _, _), AfterComment(_, _, _)
WhiteCommentLoop(t, i, toks, inc_comments) ==
    AfterWhitespace(t, ScanWhitespace(t, i, toks), inc_comments)

AfterWhitespace(t, w, inc_comments) ==
    IF w.ret THEN WhiteCommentLoop(t, w.itr, w.tokens, inc_comments)
    ELSE AfterComment(t, ScanComment(t, w.itr, w.tokens, inc_comments), inc_comments)

AfterComment(t, c, inc_comments) ==
    IF c.ret THEN WhiteCommentLoop(t, c.itr, c.tokens, inc_comments) ELSE c

\* the switch over the type ty of the first character
Dispatch(t, i, toks, inc_tags, ty) ==
    CASE ty = "kSymbol"   -> ScanSymbol(t, i, toks)
      [] ty = "kNumber"   -> ScanNumber(t, i, toks)
      [] ty = "kString"   -> ScanString(t, i, toks)
      [] ty = "kBracket"  -> ScanBracket(t, i, toks)
      [] ty = "kOperator" -> ScanOperator(t, i, toks)
      [] ty = "kTag"      -> ScanTag(t, i, toks, inc_tags)
      [] ty = "kUnknown"  -> ScanUnknown(t, i, toks)
      [] OTHER            -> Asserting(St(i, toks, FALSE), FALSE)

\* a ProcessStep that reports success whatever the last token is
ProcessStepNeverFails(toks) == TRUE

\* the return value after the scanner has run
ScannerResult(toks) == ~(toks = <<>> \/ IsError(Last(toks)))

\* "check if the scanners produced an error": s is the scanner's outcome
StepEnd(s) == [s EXCEPT !.ret = ScannerResult(s.tokens)]

\* ProcessStep after the whitespace and comment loop, which gave a
AfterLoop(t, a, inc_tags) ==
    IF BackIsError(a.tokens) THEN St(a.itr, a.tokens, FALSE)
    ELSE IF IsEnd(t, a.itr) THEN St(a.itr, a.tokens, FALSE)
    ELSE IF GetCharType(t, a.itr) = "kError"
    THEN St(a.itr, PushToken(a.tokens, "kError", a.itr, <<"Invalid character.">>), FALSE)
    ELSE StepEnd(Dispatch(t, a.itr, a.tokens, inc_tags, GetCharType(t, a.itr)))

ProcessStep(t, i, toks, inc_comments, inc_tags) ==
    IF IsEnd(t, i) THEN St(i, toks, FALSE)
    ELSE AfterLoop(t, WhiteCommentLoop(t, i, toks, inc_comments), inc_tags)

-----------------------------------------------------------------------------
(* Lexer::ValidateBrackets *)

Openers == {"(", "[", "{", "<"}
Closers == {")", "]", "}", ">"}

CloserOf(c) ==
    CASE c = "(" -> ")" [] c = "[" -> "]" [] c = "{" -> "}" [] c = "<" -> ">"

IsBracket(tok) == tok.type = "kBracket"

\* what the function returns once the loop over the tokens has ended
ValidateAtEnd(stk) == TRUE

\* the loop over tokens_[k ..], with the stack stk (top at the end)
RECURSIVE ValidateFrom(_, _, _)
ValidateFrom(toks, k, stk) ==
    IF k > Len(toks) THEN ValidateAtEnd(stk)
    ELSE IF ~IsBracket(toks[k]) THEN ValidateFrom(toks, k + 1, stk)
    ELSE LET c    == toks[k].value[1]
             stk1 == IF c \in Openers THEN Append(stk, CloserOf(c)) ELSE stk
         IN IF c \in Closers
            THEN IF stk1 = <<>> \/ c # Last(stk1)
                 THEN FALSE
                 ELSE ValidateFrom(toks, k + 1, SubSeq(stk1, 1, Len(stk1) - 1))
            ELSE ValidateFrom(toks, k + 1, stk1)

ValidateBrackets(toks) == ValidateFrom(toks, 1, <<>>)

-----------------------------------------------------------------------------
(* NewickProcessor: serialization of a broker.  A NewickBrokerElement is   *)
(*   [name, branch_length, comments, tags, depth];                         *)
(* branch_length counts tenths, names, comments and tags are texts.        *)

Element(name, bl, comments, tags, depth) ==
    [name |-> name, branch_length |-> bl, comments |-> comments, tags |-> tags,
     depth |-> depth]

DigitChar(d) ==
    CASE d = 0 -> "0" [] d = 1 -> "1" [] d = 2 -> "2" [] d = 3 -> "3" [] d = 4 -> "4"
      [] d = 5 -> "5" [] d = 6 -> "6" [] d = 7 -> "7" [] d = 8 -> "8" [] d = 9 -> "9"

RECURSIVE NatToText(_)
NatToText(n) == IF n < 10 THEN <<DigitChar(n)>> ELSE NatToText(n \div 10) \o <<DigitChar(n % 10)>>

\* std::to_string(double): fixed notation with six decimals
DoubleToString(tenths) ==
    NatToText(tenths \div 10) \o <<".", DigitChar(tenths % 10), "0", "0", "0", "0", "0">>

RECURSIVE Bracketed(_, _, _)
Bracketed(list, open, close) ==
    IF list = <<>> THEN <<>>
    ELSE <<open>> \o Head(list) \o <<close>> \o Bracketed(Tail(list), open, close)

\* an element text whose comments are written only together with the name
ElementTextCommentsWithName(bn, pn, pb, pcm, pt) ==
    (IF pn THEN StringReplaceAll(bn.name, <<" ">>, <<"_">>) ELSE <<>>)
    \o (IF pb THEN <<":">> \o DoubleToString(bn.branch_length) ELSE <<>>)
    \o (IF pcm /\ pn THEN Bracketed(bn.comments, "[", "]") ELSE <<>>)
    \o (IF pt THEN Bracketed(bn.tags, "{", "}") ELSE <<>>)

\* NewickProcessor::ElementToString under the print flags pn, pb, pcm, pt
ElementText(bn, pn, pb, pcm, pt) ==
    (IF pn THEN StringReplaceAll(bn.name, <<" ">>, <<"_">>) ELSE <<>>)
    \o (IF pb THEN <<":">> \o DoubleToString(bn.branch_length) ELSE <<>>)
    \o (IF pcm THEN Bracketed(bn.comments, "[", "]") ELSE <<>>)
    \o (IF pt THEN Bracketed(bn.tags, "{", "}") ELSE <<>>)

ElementToString(bn) ==
    ElementText(bn, print_names, print_branch_lengths, print_comments, print_tags)

\* the broker element after ElementToString has run on it
ElementWithUnderscores(bn) == [bn EXCEPT !.name = StringReplaceAll(bn.name, <<" ">>, <<"_">>)]

ElementAfterToString(bn) == bn

Depth(b, pos) == b[pos + 1].depth

\* NewickBrokerElement::rank: the number of immediate children of element pos
RECURSIVE SubtreeEnd(_, _, _)
SubtreeEnd(b, pos, i) ==
    IF i < Len(b) /\ Depth(b, i) > Depth(b, pos) THEN SubtreeEnd(b, pos, i + 1) ELSE i

rank(b, pos) ==
    Cardinality({i \in (pos + 1)..(SubtreeEnd(b, pos, pos + 1) - 1) :
                    Depth(b, i) = Depth(b, pos) + 1})

\* the children joined from the back of the deque to its front
RECURSIVE JoinChildrenReversed(_, _)
JoinChildrenReversed(children, i) ==
    IF i < Len(children)
    THEN (IF i > 0 THEN <<",">> ELSE <<>>) \o children[Len(children) - i]
         \o JoinChildrenReversed(children, i + 1)
    ELSE <<>>

RECURSIVE JoinChildren(_, _)
JoinChildren(children, i) ==
    IF i < Len(children)
    THEN (IF i > 0 THEN <<",">> ELSE <<>>) \o children[i + 1] \o JoinChildren(children, i + 1)
    ELSE <<>>

RECURSIVE ToStringRec(_, _), ChildLoop(_, _, _, _)
\* the loop that fills the deque children, at index i
ChildLoop(b, pos, i, children) ==
    IF i < Len(b) /\ Depth(b, i) > Depth(b, pos)
    THEN IF Depth(b, i) > Depth(b, pos) + 1
         THEN ChildLoop(b, pos, i + 1, children)
         ELSE ChildLoop(b, pos, i + 1, <<ToStringRec(b, i)>> \o children)
    ELSE children

ToStringRec(b, pos) ==
    IF rank(b, pos) = 0
    THEN ElementToString(b[pos + 1])
    ELSE <<"(">> \o JoinChildren(ChildLoop(b, pos, pos + 1, <<>>), 0) \o <<")">>
         \o ElementToString(b[pos + 1])

\* the broker after ToStringRec has visited every element
BrokerAfterToString(b) == [k \in 1..Len(b) |-> ElementAfterToString(b[k])]

-----------------------------------------------------------------------------
(* ProcessString(text, false) as a function: the tokens that the loop leaves *)

RECURSIVE DrainAll(_, _, _, _, _)
\* if (!ProcessStep()) return ...; with s the outcome of ProcessStep
DrainAfter(t, s, inc_comments, inc_tags) ==
    IF s.ret THEN DrainAll(t, s.itr, s.tokens, inc_comments, inc_tags) ELSE s.tokens

\* while (!IsEnd()) ...
DrainAll(t, i, toks, inc_comments, inc_tags) ==
    IF IsEnd(t, i) THEN toks
    ELSE DrainAfter(t, ProcessStep(t, i, toks, inc_comments, inc_tags), inc_comments, inc_tags)

-----------------------------------------------------------------------------
(* The lexer as a state machine: the caller of ProcessString / ProcessStep *)

LexIdle ==
    /\ text = <<>>
    /\ itr = 0
    /\ tokens = <<>>
    /\ include_tags = TRUE
    /\ include_comments = TRUE
    /\ stepwise = FALSE
    /\ pc = "idle"
    /\ result = TRUE
    /\ lateCalls = 0
    /\ steps = 0
    /\ asserted = FALSE

\* one call of ProcessStep on the lexer's state
Stepped == ProcessStep(text, itr, tokens, include_comments, include_tags)

\* the lexer's state after a call of ProcessStep with outcome s
Scanned(s) ==
    /\ itr' = s.itr
    /\ tokens' = s.tokens
    /\ asserted' = (asserted \/ s.bad)

\* ProcessString(t, false) up to the loop: Init(t)
ProcessStringDrain(t, ic, it) ==
    /\ pc = "idle"
    /\ text' = t
    /\ itr' = 0
    /\ tokens' = <<>>
    /\ include_comments' = ic
    /\ include_tags' = it
    /\ stepwise' = FALSE
    /\ pc' = "loop"
    /\ steps' = 0
    /\ UNCHANGED <<result, lateCalls, asserted>>
    /\ UNCHANGED notLexVars

\* if (!ProcessStep()) return tokens_.empty();  with s the outcome of ProcessStep
DrainStep(s) ==
    IF s.ret
    THEN UNCHANGED <<pc, result>>
    ELSE pc' = "done" /\ result' = (s.tokens = <<>>)

\* one iteration of the loop of ProcessString: while (!IsEnd()) if (!ProcessStep()) return ...
DrainIteration ==
    /\ pc = "loop"
    /\ ~IsEnd(text, itr)
    /\ Scanned(Stepped)
    /\ DrainStep(Stepped)
    /\ steps' = steps + 1
    /\ UNCHANGED <<text, include_tags, include_comments, stepwise, lateCalls>>
    /\ UNCHANGED notLexVars

\* the loop of ProcessString ends: return true
DrainReturn ==
    /\ pc = "loop"
    /\ IsEnd(text, itr)
    /\ pc' = "done"
    /\ result' = TRUE
    /\ UNCHANGED <<text, itr, tokens, include_tags, include_comments, stepwise,
                   lateCalls, steps, asserted>>
    /\ UNCHANGED notLexVars

\* ProcessString(t, true): Init(t); return ProcessStep()
ProcessStringStepwise(t, ic, it) ==
    /\ pc = "idle"
    /\ text' = t
    /\ Scanned(ProcessStep(t, 0, <<>>, ic, it))
    /\ result' = ProcessStep(t, 0, <<>>, ic, it).ret
    /\ include_comments' = ic
    /\ include_tags' = it
    /\ stepwise' = TRUE
    /\ pc' = "stepping"
    /\ steps' = 1
    /\ UNCHANGED lateCalls
    /\ UNCHANGED notLexVars

\* the caller asks for more tokens: ProcessStep()
CallProcessStep ==
    /\ pc = "stepping"
    /\ result \/ lateCalls < MaxLateCalls
    /\ Scanned(Stepped)
    /\ result' = Stepped.ret
    /\ lateCalls' = IF result THEN lateCalls ELSE lateCalls + 1
    /\ steps' = steps + 1
    /\ UNCHANGED <<text, include_tags, include_comments, stepwise, pc>>
    /\ UNCHANGED notLexVars

\* the caller is finished with the tokens of this text
Release ==
    /\ pc \in {"done", "stepping"}
    /\ text' = <<>>
    /\ itr' = 0
    /\ tokens' = <<>>
    /\ include_tags' = TRUE
    /\ include_comments' = TRUE
    /\ stepwise' = FALSE
    /\ pc' = "idle"
    /\ result' = TRUE
    /\ lateCalls' = 0
    /\ steps' = 0
    /\ asserted' = FALSE
    /\ UNCHANGED notLexVars

\* the texts of the lexer's specification
Alphabet == {"A", " ", "(", ")", "[", "]", "{", "}", "'", ":"}

Ex_MissingParen == <<"(", "A", ",", "B", ";">>

Texts == Strings(Alphabet, MaxLen) \cup {Ex_MissingParen}

Next ==
    \/ pc = "idle" /\ \E t \in Texts : ProcessStringDrain(t, TRUE, TRUE)
    \/ DrainIteration
    \/ DrainReturn
    \/ pc = "idle" /\ \E t \in Texts : ProcessStringStepwise(t, TRUE, TRUE)
    \/ CallProcessStep
    \/ Release

\* no broker, the default print flags
SerIdle ==
    /\ broker = <<>>
    /\ print_names = TRUE
    /\ print_branch_lengths = FALSE
    /\ print_comments = FALSE
    /\ print_tags = FALSE
    /\ out = <<>>
    /\ outFlags = <<>>
    /\ serialized = 0

\* SpiderpigFunction has not been called, no RMQ_succinct is built, no tree is
\* held for an iteration of links
NothingElse ==
    /\ plpc = "read"
    /\ reference_tree = <<>>
    /\ small_tree = <<>>
    /\ reference_ok = TRUE
    /\ small_ok = TRUE
    /\ preorder_id = <<>>
    /\ reference_map = <<>>
    /\ euler_ids = <<>>
    /\ preorder_to_euler_map = <<>>
    /\ rmq_n = 0
    /\ preorder_ids = <<>>
    /\ loop_i = 0
    /\ queries = 0
    /\ verdict = "none"
    /\ ub = FALSE
    /\ rmq_array = <<>>
    /\ rmq_range = <<>>
    /\ rmq_answer = 0
    /\ it_tree = <<>>
    /\ it_node = -1
    /\ it_link = -1
    /\ it_start = -1
    /\ it_visited = <<>>

PlIdle ==
    /\ NothingElse
    /\ log_pc = <<>>
    /\ count_ = 0
    /\ last_clock_ = 0
    /\ log_mutex = "none"
    /\ ostreams = <<>>
    /\ details = <<>>
    /\ now_clock = <<>>
    /\ log_msg = <<>>
    /\ log_k = <<>>
    /\ log_reg = <<>>
    /\ log_done = <<>>
    /\ log_time = 0

vars == <<lexVars, serVars, plVars, rmqVars, linkVars, logVars>>

Init ==
    /\ LexIdle
    /\ SerIdle
    /\ PlIdle

Spec == Init /\ [][Next]_vars

-----------------------------------------------------------------------------
(* Serialization as a state machine *)

\* the shapes of a broker: element 0 has depth 0, every other element lies at
\* most one level below its predecessor
DepthLists(n) ==
    UNION {{d \in [1..k -> 0..(k - 1)] :
               /\ d[1] = 0
               /\ \A i \in 2..k : d[i] >= 1 /\ d[i] <= d[i - 1] + 1} : k \in 1..n}

ElementKinds ==
    { [name |-> <<"A">>, branch_length |-> 0, comments |-> <<>>, tags |-> <<>>],
      [name |-> <<"A", " ", "B">>, branch_length |-> 15,
       comments |-> <<<<"c">>>>, tags |-> <<<<"t">>>>],
      [name |-> <<>>, branch_length |-> 2, comments |-> <<<<"c">>, <<"d">>>>, tags |-> <<>>] }

BrokerOf(d, e) ==
    [k \in 1..Len(d) |->
        Element(e[k].name, e[k].branch_length, e[k].comments, e[k].tags, d[k])]

Brokers == UNION {{BrokerOf(d, e) : e \in [1..Len(d) -> ElementKinds]} : d \in DepthLists(MaxBrokerSize)}

PrintSettings == {<<TRUE, FALSE, FALSE, FALSE>>, <<TRUE, TRUE, TRUE, TRUE>>,
                  <<FALSE, FALSE, FALSE, FALSE>>, <<FALSE, TRUE, FALSE, FALSE>>}

\* the client assigns the static print flags
SetPrintFlags(f) ==
    /\ printFlags # f
    /\ print_names' = f[1]
    /\ print_branch_lengths' = f[2]
    /\ print_comments' = f[3]
    /\ print_tags' = f[4]
    /\ UNCHANGED <<broker, out, outFlags, serialized>>
    /\ UNCHANGED notSerVars

\* the broker is serialized: ToStringRec(broker, 0) and the closing ";"
NewickToString ==
    /\ broker # <<>>
    /\ serialized < MaxSerializations
    /\ out' = ToStringRec(broker, 0) \o <<";">>
    /\ broker' = BrokerAfterToString(broker)
    /\ outFlags' = printFlags
    /\ serialized' = serialized + 1
    /\ UNCHANGED printFlags
    /\ UNCHANGED notSerVars

SerInit ==
    /\ LexIdle
    /\ PlIdle
    /\ broker \in Brokers
    /\ print_names = TRUE
    /\ print_branch_lengths = FALSE
    /\ print_comments = FALSE
    /\ print_tags = FALSE
    /\ out = <<>>
    /\ outFlags = <<>>
    /\ serialized = 0

SerNext ==
    \/ \E f \in PrintSettings : SetPrintFlags(f)
    \/ NewickToString

SpecSer == SerInit /\ [][SerNext]_vars

-----------------------------------------------------------------------------
(* Serialization under every setting of the print flags *)

PositionNames == <<"A", "B", "C", "D", "E", "F", "G", "H">>

\* the elements of a broker of one kind: names alone; every part filled, with a
\* blank in the name and a parenthesis in a comment; no name
PrintElement(kind, k) ==
    IF kind = "plain"
    THEN [name |-> <<PositionNames[k]>>, branch_length |-> 0, comments |-> <<>>, tags |-> <<>>]
    ELSE IF kind = "full"
    THEN [name |-> <<PositionNames[k], " ", "x">>, branch_length |-> 15,
          comments |-> <<<<"c">>, <<"(">>>>, tags |-> <<<<"t">>, <<"u">>>>]
    ELSE [name |-> <<>>, branch_length |-> 2, comments |-> <<<<"c">>>>, tags |-> <<>>]

PrintKinds == {"plain", "full", "nameless"}

PrintBrokers ==
    {BrokerOf(d, [k \in 1..Len(d) |-> PrintElement(kind, k)]) :
        d \in DepthLists(MaxPrintSize), kind \in PrintKinds}

AllPrintSettings == [1..4 -> BOOLEAN]

PrintInit ==
    /\ LexIdle
    /\ PlIdle
    /\ broker \in PrintBrokers
    /\ print_names = TRUE
    /\ print_branch_lengths = FALSE
    /\ print_comments = FALSE
    /\ print_tags = FALSE
    /\ out = <<>>
    /\ outFlags = <<>>
    /\ serialized = 0

PrintNext ==
    \/ \E f \in AllPrintSettings : SetPrintFlags(f)
    \/ NewickToString

SpecPrint == PrintInit /\ [][PrintNext]_vars

-----------------------------------------------------------------------------
(* A serialized node name handed to the lexer again *)

LabelAlphabet == {"A", "B", " ", "_", "'", "(", ",", ":"}

Names == Strings(LabelAlphabet, MaxNameLen) \ {<<>>}

LabelInit ==
    /\ LexIdle
    /\ PlIdle
    /\ broker \in {<<Element(n, 0, <<>>, <<>>, 0)>> : n \in Names}
    /\ print_names = TRUE
    /\ print_branch_lengths = FALSE
    /\ print_comments = FALSE
    /\ print_tags = FALSE
    /\ out = <<>>
    /\ outFlags = <<>>
    /\ serialized = 0

\* the text of the broker's element is lexed in drain-all mode
LexElementText == ProcessStringDrain(ElementToString(broker[1]), TRUE, TRUE)

LabelNext ==
    \/ LexElementText
    \/ DrainIteration
    \/ DrainReturn

SpecLabel == LabelInit /\ [][LabelNext]_vars

-----------------------------------------------------------------------------
(* ValidateBrackets applied to arbitrary token lists *)

BracketTokenKinds ==
    {Tok("kBracket", 0, <<c>>) : c \in Openers \cup Closers} \cup {Tok("kSymbol", 0, <<"A">>)}

BracketsInit ==
    /\ text = <<>>
    /\ itr = 0
    /\ tokens \in Strings(BracketTokenKinds, MaxBracketTokens)
    /\ include_tags = TRUE
    /\ include_comments = TRUE
    /\ stepwise = FALSE
    /\ pc = "tokens"
    /\ result = TRUE
    /\ lateCalls = 0
    /\ steps = 0
    /\ asserted = FALSE
    /\ SerIdle
    /\ PlIdle

\* a caller asks whether the brackets of the token list are valid
CallValidateBrackets ==
    /\ pc = "tokens"
    /\ result' = ValidateBrackets(tokens)
    /\ pc' = "validated"
    /\ UNCHANGED <<text, itr, tokens, include_tags, include_comments, stepwise,
                   lateCalls, steps, asserted>>
    /\ UNCHANGED notLexVars

BracketsNext == CallValidateBrackets

SpecBrackets == BracketsInit /\ [][BracketsNext]_vars

-----------------------------------------------------------------------------
(* Trees.  A tree is the list of its nodes in preorder, [name, depth]; node *)
(* k (from 0) is element k + 1.  The empty list is the empty tree.         *)

NodesOf(T) == 0..(Len(T) - 1)

ChildrenOf(T, k) ==
    {n \in (k + 1)..(SubtreeEnd(T, k, k + 1) - 1) : Depth(T, n) = Depth(T, k) + 1}

\* the links of node k: one per child, one to the parent, and the single link
\* of a node without neighbours
LinkCount(T, k) ==
    IF Len(T) = 1 THEN 1
    ELSE Cardinality(ChildrenOf(T, k)) + (IF k = 0 THEN 0 ELSE 1)

\* TreeNode::Rank
Rank(T, k) == LinkCount(T, k) - 1

\* TreeNode::IsLeaf: the node's link is its own successor
IsLeaf(T, k) == LinkCount(T, k) = 1

IsInner(T, k) == ~IsLeaf(T, k)

NodeCount(T) == Len(T)

LeafCount(T) == Cardinality({k \in 0..(Len(T) - 1) : IsLeaf(T, k)})

\* NewickProcessor::FromFile: the value it returns and the tree it leaves
FromFile(file) == [ok |-> file.ok, tree |-> IF file.ok THEN file.tree ELSE <<>>]

\* the walk of the Euler tour iterator: along every link, from the root's first
\* link until that link comes up again
RECURSIVE FullTour(_, _), TourChildren(_, _, _)
TourChildren(T, k, n) ==
    IF n < Len(T) /\ Depth(T, n) > Depth(T, k)
    THEN (IF Depth(T, n) = Depth(T, k) + 1 THEN FullTour(T, n) \o <<k>> ELSE <<>>)
         \o TourChildren(T, k, n + 1)
    ELSE <<>>

FullTour(T, k) == <<k>> \o TourChildren(T, k, k + 1)

Eulertour(T) ==
    IF T = <<>> THEN <<>>
    ELSE IF Len(T) = 1 THEN <<0>>
    ELSE SubSeq(FullTour(T, 0), 1, 2 * (Len(T) - 1))

\* std::map: a function on the keys it holds; operator[] inserts 0 for a new key
MapPut(m, key, v) == [x \in (DOMAIN m) \cup {key} |-> IF x = key THEN v ELSE m[x]]

MapAt(m, key) == IF key \in DOMAIN m THEN m[key] ELSE 0

MapTouch(m, key) == IF key \in DOMAIN m THEN m ELSE MapPut(m, key, 0)

\* a query that answers with the right end of its range
RmqQueryRightEnd(a, x, y) == y

\* rmq.query(x, y): the first index of the least value of a[x..y]
RmqQuery(a, x, y) ==
    CHOOSE m \in x..y : \A k \in x..y : a[m + 1] < a[k + 1] \/ (a[m + 1] = a[k + 1] /\ m <= k)

\* a sort that leaves the list as it is
LeftUnsorted(list) == list

\* std::sort on pairs
PairLess(p, q) == p[1] < q[1] \/ (p[1] = q[1] /\ p[2] < q[2])

RECURSIVE InsertPair(_, _)
InsertPair(p, sorted) ==
    IF sorted = <<>> THEN <<p>>
    ELSE IF PairLess(Head(sorted), p) THEN <<Head(sorted)>> \o InsertPair(p, Tail(sorted))
    ELSE <<p>> \o sorted

RECURSIVE SortPairs(_)
SortPairs(list) == IF list = <<>> THEN <<>> ELSE InsertPair(Head(list), SortPairs(Tail(list)))

-----------------------------------------------------------------------------
(* Plausibility::SpiderpigFunction, statement by statement *)

\* the loop over the reference tree in preorder, from node c
RECURSIVE NumberLeaves(_, _, _)
NumberLeaves(T, c, map) ==
    IF c < Len(T)
    THEN NumberLeaves(T, c + 1, IF IsLeaf(T, c) THEN MapPut(map, T[c + 1].name, c) ELSE map)
    ELSE map

\* a loop over the Euler tour that stores the index of every occurrence
RECURSIVE LastOccurrences(_, _, _)
LastOccurrences(ids, c, map) ==
    IF c < Len(ids) THEN LastOccurrences(ids, c + 1, MapPut(map, ids[c + 1], c)) ELSE map

\* the loop over the Euler tour, from index c
RECURSIVE FirstOccurrences(_, _, _)
FirstOccurrences(ids, c, map) ==
    IF c < Len(ids)
    THEN FirstOccurrences(ids, c + 1,
            IF ids[c + 1] \in DOMAIN map THEN map ELSE MapPut(map, ids[c + 1], c))
    ELSE map

\* the loop over the small tree in preorder, from node k
RECURSIVE CollectFrom(_, _, _, _)
CollectFrom(T, k, map, ids) ==
    IF k < Len(T)
    THEN IF IsLeaf(T, k)
         THEN CollectFrom(T, k + 1, MapTouch(map, T[k + 1].name),
                          Append(ids, <<MapAt(map, T[k + 1].name), 1>>))
         ELSE CollectFrom(T, k + 1, map, ids)
    ELSE [map |-> map, ids |-> ids]

ReadTrees(reference_tree_file, small_tree_file) ==
    /\ plpc = "read"
    /\ reference_tree' = FromFile(reference_tree_file).tree
    /\ small_tree' = FromFile(small_tree_file).tree
    /\ reference_ok' = FromFile(reference_tree_file).ok
    /\ small_ok' = FromFile(small_tree_file).ok
    /\ plpc' = "number"
    /\ UNCHANGED <<preorder_id, reference_map, euler_ids, preorder_to_euler_map, rmq_n,
                   preorder_ids, loop_i, queries, verdict, ub>>
    /\ UNCHANGED notPlVars

NumberNodes ==
    /\ plpc = "number"
    /\ preorder_id' = [k \in 1..Len(reference_tree) |-> k - 1]
    /\ reference_map' = NumberLeaves(reference_tree, 0, <<>>)
    /\ plpc' = "euler"
    /\ UNCHANGED <<reference_tree, small_tree, reference_ok, small_ok, euler_ids,
                   preorder_to_euler_map, rmq_n, preorder_ids, loop_i, queries, verdict, ub>>
    /\ UNCHANGED notPlVars

EulerIds(T, ids) == [c \in 1..Len(Eulertour(T)) |-> ids[Eulertour(T)[c] + 1]]

EulerTraversal ==
    /\ plpc = "euler"
    /\ euler_ids' = EulerIds(reference_tree, preorder_id)
    /\ preorder_to_euler_map' = FirstOccurrences(EulerIds(reference_tree, preorder_id), 0, <<>>)
    /\ plpc' = "rmq"
    /\ UNCHANGED <<reference_tree, small_tree, reference_ok, small_ok, preorder_id,
                   reference_map, rmq_n, preorder_ids, loop_i, queries, verdict, ub>>
    /\ UNCHANGED notPlVars

\* RMQ_succinct(&euler_ids[0], 4 * NodeCount - 5): with fewer than two nodes the
\* length is below zero, and the behaviour undefined
BuildRMQ ==
    /\ plpc = "rmq"
    /\ rmq_n' = 4 * NodeCount(reference_tree) - 5
    /\ IF NodeCount(reference_tree) >= 2
       THEN plpc' = "collect" /\ ub' = ub
       ELSE plpc' \in {"collect", "crashed"} /\ ub' = TRUE
    /\ UNCHANGED <<reference_tree, small_tree, reference_ok, small_ok, preorder_id,
                   reference_map, euler_ids, preorder_to_euler_map, preorder_ids, loop_i,
                   queries, verdict>>
    /\ UNCHANGED notPlVars

CollectLeaves ==
    /\ plpc = "collect"
    /\ preorder_ids' = CollectFrom(small_tree, 0, reference_map, <<>>).ids
    /\ reference_map' = CollectFrom(small_tree, 0, reference_map, <<>>).map
    /\ plpc' = "sort"
    /\ UNCHANGED <<reference_tree, small_tree, reference_ok, small_ok, preorder_id,
                   euler_ids, preorder_to_euler_map, rmq_n, loop_i, queries, verdict, ub>>
    /\ UNCHANGED notPlVars

SortLeaves ==
    /\ plpc = "sort"
    /\ preorder_ids' = SortPairs(preorder_ids)
    /\ loop_i' = 0
    /\ plpc' = "query"
    /\ UNCHANGED <<reference_tree, small_tree, reference_ok, small_ok, preorder_id,
                   reference_map, euler_ids, preorder_to_euler_map, rmq_n, queries, verdict, ub>>
    /\ UNCHANGED notPlVars

\* i < small_tree.LeafCount() - 1 in size_t: without leaves the bound wraps
\* around to the largest size_t
QueryLoopGuard == LeafCount(small_tree) = 0 \/ loop_i < LeafCount(small_tree) - 1

\* the first index of preorder id p in the Euler tour, as operator[] gives it
EulerIndex(p) == MapAt(preorder_to_euler_map, p)

\* the iteration reads two pairs of preorder_ids and queries a range of the
\* Euler tour: outside of either, its behaviour is undefined
QueryDefined ==
    /\ ~ub
    /\ loop_i + 1 < Len(preorder_ids)
    /\ EulerIndex(preorder_ids[loop_i + 1][1]) <= EulerIndex(preorder_ids[loop_i + 2][1])
    /\ EulerIndex(preorder_ids[loop_i + 2][1]) < Len(euler_ids)

\* the index that the query answers with, taken for the id stored there
QueryResultIndex ==
    RmqQuery(euler_ids, EulerIndex(preorder_ids[loop_i + 1][1]),
             EulerIndex(preorder_ids[loop_i + 2][1]))

QueryResult ==
    euler_ids[RmqQuery(euler_ids, EulerIndex(preorder_ids[loop_i + 1][1]),
                       EulerIndex(preorder_ids[loop_i + 2][1])) + 1]

QueryIteration ==
    /\ plpc = "query"
    /\ QueryLoopGuard
    /\ IF QueryDefined
       THEN /\ preorder_to_euler_map' =
                  MapTouch(MapTouch(preorder_to_euler_map, preorder_ids[loop_i + 1][1]),
                           preorder_ids[loop_i + 2][1])
            /\ preorder_ids' = Append(preorder_ids, <<QueryResult, 0>>)
            /\ queries' = queries + 1
            /\ loop_i' = loop_i + 1
            /\ UNCHANGED <<plpc, ub>>
       ELSE /\ plpc' \in {"assert", "crashed"}
            /\ ub' = TRUE
            /\ UNCHANGED <<preorder_to_euler_map, preorder_ids, queries, loop_i>>
    /\ UNCHANGED <<reference_tree, small_tree, reference_ok, small_ok, preorder_id,
                   reference_map, euler_ids, rmq_n, verdict>>
    /\ UNCHANGED notPlVars

QueryLoopExit ==
    /\ plpc = "query"
    /\ ~QueryLoopGuard
    /\ plpc' = "assert"
    /\ UNCHANGED <<reference_tree, small_tree, reference_ok, small_ok, preorder_id,
                   reference_map, euler_ids, preorder_to_euler_map, rmq_n, preorder_ids,
                   loop_i, queries, verdict, ub>>
    /\ UNCHANGED notPlVars

\* assert(preorder_ids.size() == 2 * LeafCount - 1); a build without assertions
\* goes on
AssertSize ==
    /\ plpc = "assert"
    /\ IF LeafCount(small_tree) >= 1 /\ Len(preorder_ids) = 2 * LeafCount(small_tree) - 1
       THEN plpc' = "sort2"
       ELSE plpc' \in {"aborted", "sort2"}
    /\ UNCHANGED <<reference_tree, small_tree, reference_ok, small_ok, preorder_id,
                   reference_map, euler_ids, preorder_to_euler_map, rmq_n, preorder_ids,
                   loop_i, queries, verdict, ub>>
    /\ UNCHANGED notPlVars

\* the second sort, the loop with the empty body, and the return
SortAndReturn ==
    /\ plpc = "sort2"
    /\ preorder_ids' = SortPairs(preorder_ids)
    /\ plpc' = "returned"
    /\ UNCHANGED <<reference_tree, small_tree, reference_ok, small_ok, preorder_id,
                   reference_map, euler_ids, preorder_to_euler_map, rmq_n, loop_i,
                   queries, verdict, ub>>
    /\ UNCHANGED notPlVars

-----------------------------------------------------------------------------
(* The trees that the two files hold *)

RECURSIVE DepthListsOfSize(_)
DepthListsOfSize(n) ==
    IF n = 1 THEN {<<0>>}
    ELSE UNION {{Append(d, x) : x \in 1..(d[n - 1] + 1)} : d \in DepthListsOfSize(n - 1)}

Shape(d) == [k \in 1..Len(d) |-> [name |-> "", depth |-> d[k]]]

\* the shapes in which no node has a single child
Shapes(n) ==
    {S \in UNION {{Shape(d) : d \in DepthListsOfSize(k)} : k \in 1..n} :
        \A k \in 0..(Len(S) - 1) : Cardinality(ChildrenOf(S, k)) # 1}

LeafIndex(S, k) == Cardinality({n \in 0..k : IsLeaf(S, n)})

NamedTree(S, names) ==
    [k \in 1..Len(S) |->
        IF IsLeaf(S, k - 1) THEN [name |-> names[LeafIndex(S, k - 1)], depth |-> S[k].depth]
        ELSE S[k]]

LeafNames == <<"A", "B", "C", "D", "E", "F", "G", "H">>

SmallLeafNames == {"A", "B", "C", "X"}

ReferenceTrees == {NamedTree(S, LeafNames) : S \in Shapes(MaxReferenceSize)}

SmallTrees ==
    UNION {{NamedTree(S, f) : f \in [1..LeafCount(S) -> SmallLeafNames]} : S \in Shapes(MaxSmallSize)}

Unreadable == [ok |-> FALSE, tree |-> <<>>]

ReferenceFiles == {[ok |-> TRUE, tree |-> T] : T \in ReferenceTrees} \cup {Unreadable}

SmallFiles == {[ok |-> TRUE, tree |-> T] : T \in SmallTrees} \cup {Unreadable}

\* ((A,B),(C,D)); (A,C); and (A,B);
Ex_Reference == NamedTree(Shape(<<0, 1, 2, 2, 1, 2, 2>>), LeafNames)

Ex_SmallAC == NamedTree(Shape(<<0, 1, 1>>), <<"A", "C">>)

Ex_SmallAB == NamedTree(Shape(<<0, 1, 1>>), <<"A", "B">>)

PlInit ==
    /\ LexIdle
    /\ SerIdle
    /\ PlIdle

PlNext ==
    \/ plpc = "read" /\ \E f \in ReferenceFiles, g \in SmallFiles : ReadTrees(f, g)
    \/ NumberNodes
    \/ EulerTraversal
    \/ BuildRMQ
    \/ CollectLeaves
    \/ SortLeaves
    \/ QueryIteration
    \/ QueryLoopExit
    \/ AssertSize
    \/ SortAndReturn

SpecPlaus == PlInit /\ [][PlNext]_vars

-----------------------------------------------------------------------------
(* An RMQ_succinct built from an Euler tour and queried by itself *)

\* the Euler tours of the reference trees, as preorder ids
EulerArrays ==
    {EulerIds(T, [k \in 1..Len(T) |-> k - 1]) : T \in {R \in ReferenceTrees : NodeCount(R) >= 2}}

\* RMQ_succinct(a, n) with n the length of a
RmqConstruct(a) ==
    /\ rmq_array = <<>>
    /\ rmq_array' = a
    /\ UNCHANGED <<rmq_range, rmq_answer>>
    /\ UNCHANGED notRmqVars

\* rmq.query(x, y)
RmqAsk(x, y) ==
    /\ rmq_array # <<>>
    /\ x <= y
    /\ y < Len(rmq_array)
    /\ rmq_range' = <<x, y>>
    /\ rmq_answer' = RmqQuery(rmq_array, x, y)
    /\ UNCHANGED rmq_array
    /\ UNCHANGED notRmqVars

RmqInit ==
    /\ LexIdle
    /\ SerIdle
    /\ PlIdle

RmqNext ==
    \/ rmq_array = <<>> /\ \E a \in EulerArrays : RmqConstruct(a)
    \/ \E x, y \in 0..(2 * MaxReferenceSize) : RmqAsk(x, y)

SpecRmq == RmqInit /\ [][RmqNext]_vars

-----------------------------------------------------------------------------
(* TreeNodeIteratorLinks: the iteration over the links of one node *)

\* nullptr
NullLink == -1

\* the links of node k are numbered from 0, the primary link link_ first, in
\* the order of the circular list; TreeLink::Next of link j
LinkNext(T, k, j) == (j + 1) % LinkCount(T, k)

\* an iterator whose operator ++ lacks the test for the start link
IncrementWithoutEnd(T, k, link, start) == LinkNext(T, k, link)

\* operator ++: the value of link_ afterwards
IteratorIncrement(T, k, link, start) ==
    IF LinkNext(T, k, link) = start THEN NullLink ELSE LinkNext(T, k, link)

\* the trees of up to MaxLinkTreeSize nodes, nodes with one child included
LinkTrees == UNION {{Shape(d) : d \in DepthListsOfSize(n)} : n \in 1..MaxLinkTreeSize}

\* a tree is built
HoldTree(T) ==
    /\ it_tree = <<>>
    /\ it_tree' = T
    /\ UNCHANGED <<it_node, it_link, it_start, it_visited>>
    /\ UNCHANGED notLinkVars

\* node->BeginLinks(): IteratorLinks(link_)
BeginLinks(k) ==
    /\ it_tree # <<>>
    /\ k \in NodesOf(it_tree)
    /\ it_node' = k
    /\ it_link' = 0
    /\ it_start' = 0
    /\ it_visited' = <<0>>
    /\ UNCHANGED it_tree
    /\ UNCHANGED notLinkVars

\* ++it while it != node->EndLinks()
IncrementLinks ==
    /\ it_node # -1
    /\ it_link # NullLink
    /\ it_link' = IteratorIncrement(it_tree, it_node, it_link, it_start)
    /\ it_visited' =
         IF IteratorIncrement(it_tree, it_node, it_link, it_start) = NullLink THEN it_visited
         ELSE Append(it_visited, IteratorIncrement(it_tree, it_node, it_link, it_start))
    /\ UNCHANGED <<it_tree, it_node, it_start>>
    /\ UNCHANGED notLinkVars

LinksInit ==
    /\ LexIdle
    /\ SerIdle
    /\ PlIdle

LinksNext ==
    \/ it_tree = <<>> /\ \E T \in LinkTrees : HoldTree(T)
    \/ \E k \in 0..(MaxLinkTreeSize - 1) : BeginLinks(k)
    \/ IncrementLinks

SpecLinks == LinksInit /\ [][LinksNext]_vars

------------------------------------------------------------------------------
(* Logging::~Logging, run by several threads of a build with PTHREADS.  Every
   access to the static members count_ and last_clock_ and every write to a
   stream is a step of its own; what a thread does to its own locals between
   two such accesses is part of the step that follows. *)

LogThreads == {"t1", "t2"}

NoThread == "none"

\* the streams registered in Logging::ostreams_
LogStreamNames == <<"cout", "file">>

\* a lock that does not wait for log_mutex
MutexAlwaysFree(holder) == TRUE

\* log_mutex.lock() returns only when log_mutex is free
MutexFree(holder) == holder = NoThread

NoMsg == [thread |-> NoThread, n |-> 0, count |-> <<>>, rundiff |-> <<>>]

\* the end of a LOG statement: clock_t now_clock = clock()
LogStart(t) ==
    /\ log_pc[t] = "idle"
    /\ log_done[t] < MaxLogStatements
    /\ log_time' = log_time + 1
    /\ now_clock' = [now_clock EXCEPT ![t] = log_time + 1]
    /\ log_pc' = [log_pc EXCEPT ![t] = "count"]
    /\ UNCHANGED <<count_, last_clock_, log_mutex, ostreams, details, log_msg, log_k,
                   log_reg, log_done>>
    /\ UNCHANGED notLogVars

\* if (details_.count) det_buff << count_
LogDetailsCount(t) ==
    /\ log_pc[t] = "count"
    /\ log_msg' = [log_msg EXCEPT ![t] =
                      [thread |-> t,
                       n |-> log_done[t] + 1,
                       count |-> IF details.count THEN <<count_>> ELSE <<>>,
                       rundiff |-> <<>>]]
    /\ log_pc' = [log_pc EXCEPT ![t] = IF details.rundiff THEN "rundiff" ELSE "lock"]
    /\ UNCHANGED <<count_, last_clock_, log_mutex, ostreams, details, now_clock, log_k,
                   log_reg, log_done, log_time>>
    /\ UNCHANGED notLogVars

\* if (details_.rundiff): val from last_clock_, then last_clock_ = now_clock
LogDetailsRundiff(t) ==
    /\ log_pc[t] = "rundiff"
    /\ log_msg' = [log_msg EXCEPT ![t].rundiff =
                      IF last_clock_ > 0 THEN <<now_clock[t] - last_clock_>> ELSE <<0>>]
    /\ last_clock_' = now_clock[t]
    /\ log_pc' = [log_pc EXCEPT ![t] = "lock"]
    /\ UNCHANGED <<count_, log_mutex, ostreams, details, now_clock, log_k, log_reg,
                   log_done, log_time>>
    /\ UNCHANGED notLogVars

\* log_mutex.lock(), and the loop over ostreams_ begins
LogLock(t) ==
    /\ log_pc[t] = "lock"
    /\ MutexFree(log_mutex)
    /\ log_mutex' = t
    /\ log_k' = [log_k EXCEPT ![t] = 1]
    /\ log_pc' = [log_pc EXCEPT ![t] = "msg"]
    /\ UNCHANGED <<count_, last_clock_, ostreams, details, now_clock, log_msg, log_reg,
                   log_done, log_time>>
    /\ UNCHANGED notLogVars

\* (*out) << msg
LogWriteMsg(t) ==
    /\ log_pc[t] = "msg"
    /\ ostreams' = [ostreams EXCEPT ![log_k[t]] =
                       Append(@, [msg |-> log_msg[t], part |-> "msg"])]
    /\ log_pc' = [log_pc EXCEPT ![t] = "endl"]
    /\ UNCHANGED <<count_, last_clock_, log_mutex, details, now_clock, log_msg, log_k,
                   log_reg, log_done, log_time>>
    /\ UNCHANGED notLogVars

\* << std::endl << std::flush, and the loop goes on to the next stream
LogWriteEndl(t) ==
    /\ log_pc[t] = "endl"
    /\ ostreams' = [ostreams EXCEPT ![log_k[t]] =
                       Append(@, [msg |-> log_msg[t], part |-> "endl"])]
    /\ log_k' = [log_k EXCEPT ![t] = @ + 1]
    /\ log_pc' = [log_pc EXCEPT ![t] =
                     IF log_k[t] = Len(LogStreamNames) THEN "unlock" ELSE "msg"]
    /\ UNCHANGED <<count_, last_clock_, log_mutex, details, now_clock, log_msg, log_reg,
                   log_done, log_time>>
    /\ UNCHANGED notLogVars

\* log_mutex.unlock()
LogUnlock(t) ==
    /\ log_pc[t] = "unlock"
    /\ log_mutex' = NoThread
    /\ log_pc' = [log_pc EXCEPT ![t] = "load"]
    /\ UNCHANGED <<count_, last_clock_, ostreams, details, now_clock, log_msg, log_k,
                   log_reg, log_done, log_time>>
    /\ UNCHANGED notLogVars

\* count_++ on a plain long: the load
LogLoadCount(t) ==
    /\ log_pc[t] = "load"
    /\ log_reg' = [log_reg EXCEPT ![t] = count_]
    /\ log_pc' = [log_pc EXCEPT ![t] = "store"]
    /\ UNCHANGED <<count_, last_clock_, log_mutex, ostreams, details, now_clock, log_msg,
                   log_k, log_done, log_time>>
    /\ UNCHANGED notLogVars

\* count_++ on a plain long: the store; the destructor returns and its locals
\* are gone
LogStoreCount(t) ==
    /\ log_pc[t] = "store"
    /\ count_' = log_reg[t] + 1
    /\ log_done' = [log_done EXCEPT ![t] = @ + 1]
    /\ log_pc' = [log_pc EXCEPT ![t] = "idle"]
    /\ now_clock' = [now_clock EXCEPT ![t] = 0]
    /\ log_msg' = [log_msg EXCEPT ![t] = NoMsg]
    /\ log_k' = [log_k EXCEPT ![t] = 0]
    /\ log_reg' = [log_reg EXCEPT ![t] = 0]
    /\ UNCHANGED <<last_clock_, log_mutex, ostreams, details, log_time>>
    /\ UNCHANGED notLogVars

LogInit ==
    /\ LexIdle
    /\ SerIdle
    /\ NothingElse
    /\ log_pc = [t \in LogThreads |-> "idle"]
    /\ count_ = 0
    /\ last_clock_ = 0
    /\ log_mutex = NoThread
    /\ ostreams = [s \in 1..Len(LogStreamNames) |-> <<>>]
    /\ details \in [count : BOOLEAN, rundiff : BOOLEAN]
    /\ now_clock = [t \in LogThreads |-> 0]
    /\ log_msg = [t \in LogThreads |-> NoMsg]
    /\ log_k = [t \in LogThreads |-> 0]
    /\ log_reg = [t \in LogThreads |-> 0]
    /\ log_done = [t \in LogThreads |-> 0]
    /\ log_time = 0

LogNext ==
    \E t \in LogThreads :
        \/ LogStart(t)
        \/ LogDetailsCount(t)
        \/ LogDetailsRundiff(t)
        \/ LogLock(t)
        \/ LogWriteMsg(t)
        \/ LogWriteEndl(t)
        \/ LogUnlock(t)
        \/ LogLoadCount(t)
        \/ LogStoreCount(t)

SpecLog == LogInit /\ [][LogNext]_vars

-----------------------------------------------------------------------------
(* NewickLexer in drain-all mode under every setting of include_comments and *)
(* include_tags                                                              *)

FlagAlphabet == {"A", "1", " ", "(", "[", "]", "{", "}", ":"}

FlagTexts == Strings(FlagAlphabet, MaxFlagLen)

FlagsInit ==
    /\ LexIdle
    /\ SerIdle
    /\ PlIdle

FlagsNext ==
    \/ pc = "idle" /\ \E t \in FlagTexts, ic, it \in BOOLEAN : ProcessStringDrain(t, ic, it)
    \/ DrainIteration
    \/ DrainReturn

SpecFlags == FlagsInit /\ [][FlagsNext]_vars

-----------------------------------------------------------------------------
(* The scanners for numbers, strings and unknown characters *)

ScanAlphabet == {"1", ".", "e", "+", ":", "'", "A", NonAscii}

ScanTexts == Strings(ScanAlphabet, MaxScanLen)

\* Lexer::ScanNumber called on text t at its first character, as the base Lexer
\* does for a text that starts a number
CallLexerScanNumber(t) ==
    /\ pc = "idle"
    /\ text' = t
    /\ Scanned(LexerScanNumber(t, 0, <<>>))
    /\ result' = LexerScanNumber(t, 0, <<>>).ret
    /\ stepwise' = FALSE
    /\ pc' = "scanned"
    /\ UNCHANGED <<include_comments, include_tags, lateCalls, steps>>
    /\ UNCHANGED notLexVars

ScanInit ==
    /\ LexIdle
    /\ SerIdle
    /\ PlIdle

ScanNext ==
    \/ pc = "idle" /\ \E t \in ScanTexts : ProcessStringDrain(t, TRUE, TRUE)
    \/ DrainIteration
    \/ DrainReturn
    \/ pc = "idle" /\ \E t \in ScanTexts : CallLexerScanNumber(t)

SpecScan == ScanInit /\ [][ScanNext]_vars

-----------------------------------------------------------------------------
(* Properties of the lexer *)

ErrorTokens(toks) == {k \in 1..Len(toks) : IsError(toks[k])}

\* the values of the bracket tokens of a token list, in order
RECURSIVE BracketWord(_)
BracketWord(toks) ==
    IF toks = <<>> THEN <<>>
    ELSE (IF IsBracket(Head(toks)) THEN <<Head(toks).value[1]>> ELSE <<>>)
         \o BracketWord(Tail(toks))

\* well-nested words, by the grammar  W ::= empty | open W close W
RECURSIVE WellNested(_)
WellNested(w) ==
    \/ w = <<>>
    \/ /\ Len(w) >= 2
       /\ w[1] \in Openers
       /\ \E k \in 2..Len(w) :
            /\ w[k] = CloserOf(w[1])
            /\ WellNested(SubSeq(w, 2, k - 1))
            /\ WellNested(SubSeq(w, k + 1, Len(w)))

CountIn(w, S) == Cardinality({k \in 1..Len(w) : w[k] \in S})

\* some "(" of the word is never closed: a suffix holds more "(" than ")"
UnclosedParen(w) ==
    \E k \in 1..Len(w) :
        CountIn(SubSeq(w, k, Len(w)), {"("}) > CountIn(SubSeq(w, k, Len(w)), {")"})

\* the text starts with the opening delimiter and holds no closing delimiter
OpensUnclosed(t, open, close) ==
    /\ t # <<>>
    /\ t[1] = open
    /\ \A k \in 1..Len(t) : t[k] # close

LastIsErrorWith(toks, msg) ==
    /\ toks # <<>>
    /\ Last(toks).type = "kError"
    /\ Last(toks).value = <<msg>>

\* C1: ProcessString in drain-all mode returns true iff no error was met while
\* scanning, and whenever it returns false the last token is an error token.
C1_DrainResultIffNoError ==
    (pc = "done" /\ ~stepwise) =>
        /\ result <=> (ErrorTokens(tokens) = {})
        /\ ~result => BackIsError(tokens)

\* C2 (as stated): in every state, whatever calls were made, an error token is
\* the last token of the list and there is at most one.
C2_ErrorAlwaysLast ==
    \A k \in ErrorTokens(tokens) : k = Len(tokens)

\* C2 (amended): as long as ProcessStep has not been called again after it
\* returned false, an error token is the last token and there is at most one.
C2_ErrorLastUntilFalse ==
    (lateCalls = 0) => \A k \in ErrorTokens(tokens) : k = Len(tokens)

\* C2 witness: single-step scanning has put an error token behind another token
\* and stopped there.
C2_Witness ==
    /\ pc = "stepping"
    /\ lateCalls = 0
    /\ ~result
    /\ Len(tokens) >= 2
    /\ BackIsError(tokens)

\* C3: a token sequence of the Newick lexer that leaves a "(" unclosed, such as
\* that of "(A,B;", is rejected by the bracket validation.
C3_UnclosedParenRejected ==
    (pc = "done" /\ ~stepwise /\ UnclosedParen(BracketWord(tokens)))
        => ~ValidateBrackets(tokens)

\* C4: ValidateBrackets returns true iff the bracket tokens form a well-nested
\* word over ( ) [ ] { } < >.
C4_ValidIffWellNested ==
    (pc = "validated") => (result <=> WellNested(BracketWord(tokens)))

\* C10: a text that opens a comment (a tag) and never closes it ends with the
\* error token "Comment not closed." ("Opening tag without closing tag.").
C10_UnclosedDelimiterIsError ==
    (pc = "done" /\ ~stepwise) =>
        /\ OpensUnclosed(text, "[", "]") => LastIsErrorWith(tokens, "Comment not closed.")
        /\ OpensUnclosed(text, "{", "}")
               => LastIsErrorWith(tokens, "Opening tag without closing tag.")

-----------------------------------------------------------------------------
(* Properties of the serializer *)

\* C5: the text ElementToString emits for a node name is lexed again as exactly
\* one label token that holds the same name (an underscore of an unquoted label
\* may stand for a space).
C5_LabelRoundTrip ==
    (pc = "done") =>
        /\ Len(tokens) = 1
        /\ tokens[1].type \in {"kSymbol", "kString"}
        /\ \/ tokens[1].value = broker[1].name
           \/ StringReplaceAll(tokens[1].value, <<"_">>, <<" ">>) = broker[1].name

-----------------------------------------------------------------------------
(* Properties of the plausibility check *)

LeafNamesOf(T) == {T[k + 1].name : k \in {n \in 0..(Len(T) - 1) : IsLeaf(T, n)}}

\* C7: when SpiderpigFunction has returned for two trees that were read, the
\* caller has a verdict: not plausible for (A,C) and plausible for (A,B)
\* against ((A,B),(C,D)).
C7_VerdictProduced ==
    (plpc = "returned" /\ reference_ok /\ small_ok /\ ~ub) =>
        /\ verdict \in {"plausible", "not plausible"}
        /\ (reference_tree = Ex_Reference /\ small_tree = Ex_SmallAC) => verdict = "not plausible"
        /\ (reference_tree = Ex_Reference /\ small_tree = Ex_SmallAB) => verdict = "plausible"

\* C8: once the leaves of a small tree with a leaf name that the reference
\* tree lacks have been collected, SpiderpigFunction has failed: the reference map is
\* as the numbering left it and no RMQ query is made.
C8_MissingLeafIsFatal ==
    (/\ reference_ok /\ small_ok /\ ~ub
     /\ plpc \notin {"read", "number", "euler", "rmq", "collect"}
     /\ ~(LeafNamesOf(small_tree) \subseteq LeafNamesOf(reference_tree))) =>
        /\ plpc = "failed"
        /\ reference_map = NumberLeaves(reference_tree, 0, <<>>)
        /\ queries = 0

\* C9: when FromFile has failed for one of the two trees, SpiderpigFunction
\* stops: it is at most about to number the nodes, and never past that.
C9_ReadFailurePropagated ==
    (~reference_ok \/ ~small_ok) => plpc \in {"number", "failed"}

-----------------------------------------------------------------------------
(* Properties of the scanners *)

RECURSIVE FirstAt(_, _, _)
\* the first position from i on that holds character c, or Len(t) if none does
FirstAt(t, i, c) == IF i >= Len(t) \/ t[i + 1] = c THEN i ELSE FirstAt(t, i + 1, c)

RECURSIVE TokenStart(_, _)
\* the position at which the next token starts: after blanks and closed comments
TokenStart(t, i) ==
    IF i >= Len(t) THEN i
    ELSE IF t[i + 1] \in Whites THEN TokenStart(t, i + 1)
    ELSE IF t[i + 1] = "[" /\ FirstAt(t, i + 1, "]") < Len(t)
    THEN TokenStart(t, FirstAt(t, i + 1, "]") + 1)
    ELSE i

\* this step runs ProcessStep, and no earlier ProcessStep on the text has returned false
ScanningStep ==
    \/ pc = "loop"
    \/ pc = "idle" /\ pc' = "stepping"
    \/ pc = "stepping" /\ pc' = "stepping" /\ result

StrayCloserMessage(c) ==
    IF c = "]" THEN <<"Closing comment without opening it.">>
    ELSE <<"Closing tag without opening tag.">>

\* the step meets the stray closer at position p of text t
StrayCloserMet(t, p) == ScanningStep /\ p < Len(t) /\ GetChar(t, p) \in {"]", "}"}

\* the step has left an error token for position p, the position p itself and false
StoppedWithErrorAt(t, p) ==
    /\ itr' = p
    /\ tokens' # <<>>
    /\ Last(tokens') = Tok("kError", p, StrayCloserMessage(GetChar(t, p)))
    /\ Cardinality(ErrorTokens(tokens')) = Cardinality(ErrorTokens(IF pc = "idle" THEN <<>> ELSE tokens)) + 1
    /\ result' = FALSE
    /\ (pc = "loop") => (pc' = "done")

\* C11: a ProcessStep that meets a stray "]" or "}" where a token starts appends
\* an error token for it, leaves the position on it and returns false, which
\* ends the loop of ProcessString.
C11_StrayCloserStops ==
    [][StrayCloserMet(text', TokenStart(text', IF pc = "idle" THEN 0 ELSE itr))
          => StoppedWithErrorAt(text', TokenStart(text', IF pc = "idle" THEN 0 ELSE itr))]_vars

\* C11 witness: drain-all scanning has stopped on a stray closer that follows a
\* token, with the position still on the closer.
C11_Witness ==
    /\ pc = "done" /\ ~stepwise /\ ~result
    /\ Len(tokens) >= 2
    /\ BackIsError(tokens)
    /\ itr < Len(text) /\ GetChar(text, itr) \in {"]", "}"}
    /\ Last(tokens).pos = itr

\* the token was pushed by ScanNumber
FromScanNumber(tok) ==
    tok.type = "kNumber" \/ (IsError(tok) /\ tok.value = <<"Malformed number.">>)

IsDigitAt(t, p) == p >= 0 /\ p < Len(t) /\ t[p + 1] \in Digits

IsSignAt(t, p) == p >= 0 /\ p < Len(t) /\ t[p + 1] \in {"+", "-"}

IsExpAt(t, p) == p >= 0 /\ p < Len(t) /\ t[p + 1] \in {"e", "E"}

IsDotAt(t, p) == p >= 0 /\ p < Len(t) /\ t[p + 1] = "."

RECURSIVE DigitRunEnd(_, _)
\* the first position from p on that holds no digit
DigitRunEnd(t, p) == IF IsDigitAt(t, p) THEN DigitRunEnd(t, p + 1) ELSE p

\* the character at p can begin a number: a digit, a dot, a sign before a digit,
\* or an e between a digit and a digit or sign
NumberContentAt(t, p) ==
    \/ IsDigitAt(t, p)
    \/ IsDotAt(t, p)
    \/ IsSignAt(t, p) /\ IsDigitAt(t, p + 1)
    \/ IsExpAt(t, p) /\ IsDigitAt(t, p - 1) /\ (IsDigitAt(t, p + 1) \/ IsSignAt(t, p + 1))

\* digits from p, then a dot that no digit follows
DanglingDotAt(t, p) ==
    /\ IsDigitAt(t, p)
    /\ IsDotAt(t, DigitRunEnd(t, p))
    /\ ~IsDigitAt(t, DigitRunEnd(t, p) + 1)

\* digits from p, then an e that neither a digit nor a sign follows
DanglingExpAt(t, p) ==
    /\ IsDigitAt(t, p)
    /\ IsExpAt(t, DigitRunEnd(t, p))
    /\ ~IsDigitAt(t, DigitRunEnd(t, p) + 1)
    /\ ~IsSignAt(t, DigitRunEnd(t, p) + 1)

\* digits from p, then an e and a sign that no digit follows
DanglingExpSignAt(t, p) ==
    /\ IsDigitAt(t, p)
    /\ IsExpAt(t, DigitRunEnd(t, p))
    /\ IsSignAt(t, DigitRunEnd(t, p) + 1)
    /\ ~IsDigitAt(t, DigitRunEnd(t, p) + 2)

\* a sign at p that no digit follows
LoneSignAt(t, p) == IsSignAt(t, p) /\ ~IsDigitAt(t, p + 1)

NumberTokenUpTo(t, p, q) == Tok("kNumber", p, GetSubstr(t, p, q))

FromScanString(tok) ==
    tok.type = "kString" \/ (IsError(tok) /\ tok.value = <<"Malformed string.">>)

RECURSIVE StringCloses(_, _, _)
\* from position p on, text t holds a quotation mark q that is not one of a
\* doubled pair: the string that was opened before p is closed
StringCloses(t, p, q) ==
    IF p >= Len(t) THEN FALSE
    ELSE IF t[p + 1] = q /\ p + 1 < Len(t) /\ t[p + 2] = q THEN StringCloses(t, p + 2, q)
    ELSE IF t[p + 1] = q THEN TRUE
    ELSE StringCloses(t, p + 1, q)

\* C13: ScanString pushes a string token iff the quotation mark that opens the
\* string closes it before the end of the text, doubled marks being content;
\* it pushes the error token "Malformed string." otherwise.
C13_StringIffClosed ==
    \A k \in 1..Len(tokens) :
        FromScanString(tokens[k]) =>
            (tokens[k].type = "kString"
                <=> StringCloses(text, tokens[k].pos + 1, GetChar(text, tokens[k].pos)))

\* the text from p on holds only characters without a type
UnknownAt(t, p) == p >= 0 /\ p < Len(t) /\ CharType(t[p + 1]) = "kUnknown"

\* C17 as stated: a token of type kUnknown holds exactly one character.
C17_UnknownIsOneChar ==
    \A k \in 1..Len(tokens) : tokens[k].type = "kUnknown" => Len(tokens[k].value) = 1

\* C17 amended: a token of type kUnknown holds a whole run of characters
\* without a type: at least one, all of them untyped, with no untyped
\* character directly before or after the run.
C17_UnknownIsMaximalRun ==
    \A k \in 1..Len(tokens) :
        tokens[k].type = "kUnknown" =>
            /\ Len(tokens[k].value) >= 1
            /\ tokens[k].value = GetSubstr(text, tokens[k].pos, tokens[k].pos + Len(tokens[k].value))
            /\ \A p \in tokens[k].pos..(tokens[k].pos + Len(tokens[k].value) - 1) : UnknownAt(text, p)
            /\ ~UnknownAt(text, tokens[k].pos - 1)
            /\ ~UnknownAt(text, tokens[k].pos + Len(tokens[k].value))

\* C17 witness: a token of type kUnknown with two characters, followed by
\* another token.
C17_Witness ==
    \E k \in 1..Len(tokens) :
        /\ tokens[k].type = "kUnknown"
        /\ Len(tokens[k].value) = 2
        /\ k < Len(tokens)

\* the lexemes of the grammar [+-]digits[.digits][e[+-]digits]
AllDigits(s) == s # <<>> /\ \A k \in 1..Len(s) : s[k] \in Digits

SignPart(s) == s = <<>> \/ s \in {<<"+">>, <<"-">>}

FractionPart(s) == s = <<>> \/ (Head(s) = "." /\ AllDigits(Tail(s)))

ExponentPart(s) ==
    \/ s = <<>>
    \/ /\ Head(s) \in {"e", "E"}
       /\ \/ AllDigits(Tail(s))
          \/ Len(s) >= 2 /\ s[2] \in {"+", "-"} /\ AllDigits(Tail(Tail(s)))

NumberGrammar(s) ==
    \E a \in 0..Len(s), b \in 0..Len(s), c \in 0..Len(s) :
        /\ a <= b /\ b <= c
        /\ SignPart(SubSeq(s, 1, a))
        /\ AllDigits(SubSeq(s, a + 1, b))
        /\ FractionPart(SubSeq(s, b + 1, c))
        /\ ExponentPart(SubSeq(s, c + 1, Len(s)))

\* C18: the lexeme of every token of type kNumber is not empty and is of the
\* grammar [+-]digits[.digits][e[+-]digits].
C18_NumberLexemeInGrammar ==
    \A k \in 1..Len(tokens) :
        tokens[k].type = "kNumber" =>
            tokens[k].value # <<>> /\ NumberGrammar(tokens[k].value)

-----------------------------------------------------------------------------
(* Properties of the tree nodes *)

\* C14: once the reference tree is read, for every node of it Rank() is the
\* number of its links minus one and the number of its children, IsLeaf() holds
\* exactly when Rank() is 0 and IsInner() exactly when Rank() is at least 1,
\* the root node included
C14_RankIsChildren ==
    plpc # "read" =>
        \A k \in NodesOf(reference_tree) :
            /\ Rank(reference_tree, k) = LinkCount(reference_tree, k) - 1
            /\ Rank(reference_tree, k) = Cardinality(ChildrenOf(reference_tree, k))
            /\ IsLeaf(reference_tree, k) <=> Rank(reference_tree, k) = 0
            /\ IsInner(reference_tree, k) <=> Rank(reference_tree, k) >= 1

-----------------------------------------------------------------------------
(* Properties of the range minimum queries *)

\* the linear scan of a[x..y] from the left: best is the index of the least
\* value met so far
RECURSIVE LinearScan(_, _, _, _)
LinearScan(a, best, m, y) ==
    IF m > y THEN best
    ELSE LinearScan(a, IF a[m + 1] < a[best + 1] THEN m ELSE best, m + 1, y)

-----------------------------------------------------------------------------
(* Properties of the lowest common ancestors *)

ParentOf(T, k) == CHOOSE n \in NodesOf(T) : k \in ChildrenOf(T, n)

\* the nodes on the path from node k up to the root
RECURSIVE RootPath(_, _)
RootPath(T, k) == IF k = 0 THEN {0} ELSE {k} \cup RootPath(T, ParentOf(T, k))

\* the deepest node that the root paths of a and b share
NaiveLca(T, a, b) ==
    CHOOSE n \in RootPath(T, a) \cap RootPath(T, b) :
        \A m \in RootPath(T, a) \cap RootPath(T, b) : Depth(T, m) <= Depth(T, n)

\* C16: every iteration of the query loop records, for the two adjacent entries
\* of the sorted list that it reads, the preorder id of the lowest common
\* ancestor of the two nodes in the reference tree, as the intersection of
\* their root paths gives it
C16_QueryRecordsLca ==
    [][queries' = queries + 1 =>
          preorder_ids'[Len(preorder_ids')] =
              <<NaiveLca(reference_tree, preorder_ids[loop_i + 1][1],
                         preorder_ids[loop_i + 2][1]), 0>>]_vars

\* C16 witness: the loop has recorded the ancestor of two different leaves of
\* the reference tree, and it is neither the root nor one of the two
C16_Witness ==
    /\ plpc = "query"
    /\ ~ub
    /\ queries >= 1
    /\ preorder_ids[loop_i][1] # preorder_ids[loop_i + 1][1]
    /\ IsLeaf(reference_tree, preorder_ids[loop_i][1])
    /\ IsLeaf(reference_tree, preorder_ids[loop_i + 1][1])
    /\ NaiveLca(reference_tree, preorder_ids[loop_i][1], preorder_ids[loop_i + 1][1]) # 0
    /\ preorder_ids[Len(preorder_ids)] =
         <<NaiveLca(reference_tree, preorder_ids[loop_i][1], preorder_ids[loop_i + 1][1]), 0>>

-----------------------------------------------------------------------------
(* Properties of the serializer's output *)

CountOf(s, ch) == Cardinality({k \in 1..Len(s) : s[k] = ch})

\* no prefix of s closes more parentheses than it has opened, and s closes
\* all that it opens
Balanced(s) ==
    /\ CountOf(s, "(") = CountOf(s, ")")
    /\ \A n \in 1..Len(s) : CountOf(SubSeq(s, 1, n), "(") >= CountOf(SubSeq(s, 1, n), ")")

\* the text of an element under the flag setting f
TextUnder(bn, f) == ElementText(bn, f[1], f[2], f[3], f[4])

\* the children of element pos, by depth alone: the elements one level deeper
\* that come before the first later element which is not deeper than pos
ChildrenByDepth(b, pos) ==
    {n \in (pos + 1)..(Len(b) - 1) :
        /\ Depth(b, n) = Depth(b, pos) + 1
        /\ \A m \in (pos + 1)..(n - 1) : Depth(b, m) > Depth(b, pos)}

InnerElements(b) == {pos \in 0..(Len(b) - 1) : ChildrenByDepth(b, pos) # {}}

MaxOf(S) == CHOOSE m \in S : \A n \in S : n <= m

\* the text that the claim describes for element pos, its children from the
\* last one to the first
RECURSIVE ExpectedText(_, _, _), ExpectedChildren(_, _, _)
ExpectedChildren(b, S, f) ==
    IF S = {} THEN <<>>
    ELSE ExpectedText(b, MaxOf(S), f)
         \o (IF S = {MaxOf(S)} THEN <<>> ELSE <<",">>)
         \o ExpectedChildren(b, S \ {MaxOf(S)}, f)

ExpectedText(b, pos, f) ==
    IF ChildrenByDepth(b, pos) = {} THEN TextUnder(b[pos + 1], f)
    ELSE <<"(">> \o ExpectedChildren(b, ChildrenByDepth(b, pos), f) \o <<")">>
         \o TextUnder(b[pos + 1], f)

\* the occurrences of ch in the texts of the elements from k on
RECURSIVE CountInTexts(_, _, _, _)
CountInTexts(b, f, ch, k) ==
    IF k > Len(b) THEN 0
    ELSE CountOf(TextUnder(b[k], f), ch) + CountInTexts(b, f, ch, k + 1)

\* the serialized text without the closing semicolon
OutTree == SubSeq(out, 1, Len(out) - 1)

\* C19 as stated: the serialized text is the one that the depths give, a leaf
\* as its element text alone and an inner element as its children in reverse
\* order between parentheses before its element text, and it holds one ( and
\* one ) for every inner element, balanced
C19_OneParenPairPerInner ==
    serialized >= 1 =>
        /\ out = ExpectedText(broker, 0, outFlags) \o <<";">>
        /\ CountOf(out, "(") = Cardinality(InnerElements(broker))
        /\ CountOf(out, ")") = Cardinality(InnerElements(broker))
        /\ Balanced(OutTree)

\* C19 amended: the serialized text is the one that the depths give; besides
\* the parentheses that the element texts hold themselves it has one ( and one
\* ) for every inner element, and with every print flag off it consists of
\* these alone and is balanced
C19_StructureFromDepth ==
    serialized >= 1 =>
        /\ out = ExpectedText(broker, 0, outFlags) \o <<";">>
        /\ CountOf(out, "(") =
             Cardinality(InnerElements(broker)) + CountInTexts(broker, outFlags, "(", 1)
        /\ CountOf(out, ")") =
             Cardinality(InnerElements(broker)) + CountInTexts(broker, outFlags, ")", 1)
        /\ outFlags = <<FALSE, FALSE, FALSE, FALSE>> =>
             /\ \A k \in 1..Len(OutTree) : OutTree[k] \in {"(", ",", ")"}
             /\ CountOf(out, "(") = Cardinality(InnerElements(broker))
             /\ Balanced(OutTree)

\* C19 witness: a broker of four elements, two of them inner and one with two
\* children, has been serialized with its comments, one of which holds a
\* parenthesis
C19_Witness ==
    /\ serialized >= 1
    /\ Len(broker) = 4
    /\ Cardinality(InnerElements(broker)) = 2
    /\ \E pos \in InnerElements(broker) : Cardinality(ChildrenByDepth(broker, pos)) = 2
    /\ outFlags[3]
    /\ CountInTexts(broker, outFlags, "(", 1) > 0
    /\ out = ExpectedText(broker, 0, outFlags) \o <<";">>

\* the four parts of an element text, each under its own flag
NamePart(bn, on) ==
    IF on THEN [k \in 1..Len(bn.name) |-> IF bn.name[k] = " " THEN "_" ELSE bn.name[k]]
    ELSE <<>>

BranchLengthPart(bn, on) ==
    IF on THEN <<":">> \o DoubleToString(bn.branch_length) ELSE <<>>

RECURSIVE Enclosed(_, _, _, _)
Enclosed(list, k, open, close) ==
    IF k > Len(list) THEN <<>>
    ELSE <<open>> \o list[k] \o <<close>> \o Enclosed(list, k + 1, open, close)

CommentPart(bn, on) == IF on THEN Enclosed(bn.comments, 1, "[", "]") ELSE <<>>

TagPart(bn, on) == IF on THEN Enclosed(bn.tags, 1, "{", "}") ELSE <<>>

DefaultPrintFlags == printFlags = <<TRUE, FALSE, FALSE, FALSE>>

\* C20: the print flags start as names on and the other three off, and the
\* text written for a broker of one element is its name if print_names is on,
\* then : and its branch length if print_branch_lengths is on, then each
\* comment as [c] in list order if print_comments is on, then each tag as {t}
\* in list order if print_tags is on, each part under its own flag alone; with
\* all four flags off nothing but the closing semicolon is written
C20_PartsIndependent ==
    /\ DefaultPrintFlags
    /\ []((serialized >= 1 /\ Len(broker) = 1) =>
            /\ out = NamePart(broker[1], outFlags[1])
                     \o BranchLengthPart(broker[1], outFlags[2])
                     \o CommentPart(broker[1], outFlags[3])
                     \o TagPart(broker[1], outFlags[4])
                     \o <<";">>
            /\ outFlags = <<FALSE, FALSE, FALSE, FALSE>> => out = <<";">>)

\* C20 witness: an element with a name, two comments and two tags has been
\* written with print_branch_lengths and print_tags on and the other two flags
\* off, as :1.500000{t}{u};
C20_Witness ==
    /\ serialized >= 1
    /\ Len(broker) = 1
    /\ Len(broker[1].name) > 0
    /\ Len(broker[1].comments) = 2
    /\ Len(broker[1].tags) = 2
    /\ outFlags = <<FALSE, TRUE, FALSE, TRUE>>
    /\ out = <<":", "1", ".", "5", "0", "0", "0", "0", "0", "{", "t", "}", "{", "u", "}", ";">>

-----------------------------------------------------------------------------
(* Properties of the iteration over a node's links *)

\* C21: the iteration from BeginLinks() starts on the primary link, stands on
\* no link twice and on no more than Rank() + 1 links, and when the iterator
\* has become the end iterator it has stood on every link of the node's
\* circular list, Rank() + 1 links in the order of the list
C21_LinksVisitedOnce ==
    it_node # -1 =>
        /\ it_visited[1] = 0
        /\ \A a, b \in 1..Len(it_visited) : it_visited[a] = it_visited[b] => a = b
        /\ Len(it_visited) <= Rank(it_tree, it_node) + 1
        /\ it_link = NullLink =>
              /\ Len(it_visited) = Rank(it_tree, it_node) + 1
              /\ it_visited = [j \in 1..LinkCount(it_tree, it_node) |-> j - 1]

\* C21 witness: the iteration over the three links of a node below the root
\* with two children has come to its end
C21_Witness ==
    /\ it_node > 0
    /\ it_link = NullLink
    /\ Cardinality(ChildrenOf(it_tree, it_node)) = 2
    /\ it_visited = <<0, 1, 2>>

-----------------------------------------------------------------------------
(* Properties of the table of first occurrences *)

OccursInTour(p) == \E k \in 1..Len(euler_ids) : euler_ids[k] = p

\* the least index of the Euler tour at which p stands
FirstIndexOf(p) ==
    CHOOSE k \in 0..(Len(euler_ids) - 1) :
        /\ euler_ids[k + 1] = p
        /\ \A m \in 0..(k - 1) : euler_ids[m + 1] # p

TourDone == plpc \notin {"read", "number", "euler"}

\* C22: after the loop over the Euler tour, preorder_to_euler_map holds for
\* every preorder id of the tour the least index at which it stands, and every
\* query of the loop is asked on the first indices of the two ids that it
\* reads, not on the ids
C22_FirstOccurrenceTable ==
    /\ [](TourDone =>
            \A p \in 0..(Len(reference_tree) - 1) :
                OccursInTour(p) =>
                    /\ p \in DOMAIN preorder_to_euler_map
                    /\ preorder_to_euler_map[p] = FirstIndexOf(p))
    /\ [][queries' = queries + 1 =>
            preorder_ids'[Len(preorder_ids')] =
                <<euler_ids[RmqQuery(euler_ids, FirstIndexOf(preorder_ids[loop_i + 1][1]),
                                     FirstIndexOf(preorder_ids[loop_i + 2][1])) + 1], 0>>]_vars

\* C22 witness: a query has been asked for two leaves whose first indices in
\* the tour are not their ids, below a node that stands at several indices of
\* the tour, and the answer is not the one that the ids taken as indices give
C22_Witness ==
    /\ plpc = "query"
    /\ ~ub
    /\ queries >= 1
    /\ IsLeaf(reference_tree, preorder_ids[loop_i][1])
    /\ IsLeaf(reference_tree, preorder_ids[loop_i + 1][1])
    /\ preorder_to_euler_map[preorder_ids[loop_i][1]] # preorder_ids[loop_i][1]
    /\ preorder_to_euler_map[preorder_ids[loop_i + 1][1]] # preorder_ids[loop_i + 1][1]
    /\ Cardinality({k \in 1..Len(euler_ids) :
                       euler_ids[k] = preorder_ids[Len(preorder_ids)][1]}) >= 2
    /\ preorder_ids[Len(preorder_ids)][1] #
         euler_ids[RmqQuery(euler_ids, preorder_ids[loop_i][1], preorder_ids[loop_i + 1][1]) + 1]

-----------------------------------------------------------------------------
(* Properties of the query loop *)

FlaggedAs(flag) == Cardinality({k \in 1..Len(preorder_ids) : preorder_ids[k][2] = flag})

LoopLeft == plpc \in {"assert", "sort2", "returned"}

\* C23: on every run the assertion after the query loop holds: with L the
\* number of leaves of the small tree, zero and one included, the loop has
\* asked L - 1 queries and preorder_ids holds 2 * L - 1 entries, L of them
\* flagged as leaves and L - 1 as ancestors
C23_AssertionHolds ==
    /\ plpc \notin {"aborted", "crashed"}
    /\ LoopLeft =>
          /\ queries = LeafCount(small_tree) - 1
          /\ Len(preorder_ids) = 2 * LeafCount(small_tree) - 1
          /\ FlaggedAs(1) = LeafCount(small_tree)
          /\ FlaggedAs(0) = LeafCount(small_tree) - 1

\* C24: for every reference tree the length handed to RMQ_succinct is the
\* number of entries that the loop over the Euler tour has pushed into
\* euler_ids, so that every index below it is an entry of euler_ids
C24_RmqLengthIsTourLength ==
    plpc \in {"collect", "sort", "query", "assert", "sort2", "returned"} =>
        /\ rmq_n = Len(euler_ids)
        /\ \A k \in 0..(rmq_n - 1) : k + 1 \in DOMAIN euler_ids

\* an iteration of the query loop is about to read two entries that exist
QueryPending == plpc = "query" /\ ~ub /\ QueryLoopGuard /\ loop_i + 1 < Len(preorder_ids)

\* C25: the first index in the Euler tour grows strictly with the preorder id,
\* and every iteration of the query loop reads two of the entries pushed for
\* the leaves of the small tree, never one that the loop has appended, and
\* asks its query on a range x <= y
C25_QueryRangeOrdered ==
    /\ TourDone =>
          \A p, q \in 0..(Len(reference_tree) - 1) :
              (OccursInTour(p) /\ OccursInTour(q) /\ p < q) => EulerIndex(p) < EulerIndex(q)
    /\ QueryPending =>
          /\ loop_i + 2 <= LeafCount(small_tree)
          /\ preorder_ids[loop_i + 1][2] = 1
          /\ preorder_ids[loop_i + 2][2] = 1
          /\ preorder_ids[loop_i + 1][1] <= preorder_ids[loop_i + 2][1]
          /\ EulerIndex(preorder_ids[loop_i + 1][1]) <= EulerIndex(preorder_ids[loop_i + 2][1])

\* C25 witness: the leaves of the small tree were pushed in another order than
\* that of their preorder ids, the loop has appended an ancestor, and its
\* second iteration is about to ask for a range x < y
C25_Witness ==
    /\ QueryPending
    /\ queries = 1
    /\ CollectFrom(small_tree, 0, reference_map, <<>>).ids #
         SortPairs(CollectFrom(small_tree, 0, reference_map, <<>>).ids)
    /\ EulerIndex(preorder_ids[loop_i + 1][1]) < EulerIndex(preorder_ids[loop_i + 2][1])

-----------------------------------------------------------------------------
(* Properties of the lexer under its include flags *)

\* C26: in drain-all mode a call of ProcessStep that returns true has moved
\* the scan position forward by at least one character, a call that returns
\* false ends the loop, the position never passes the end of the text, and no
\* more calls of ProcessStep are made than the text has characters plus one
C26_DrainTerminates ==
    /\ [][(pc = "loop" /\ steps' = steps + 1) =>
             /\ Stepped.ret => (pc' = "loop" /\ itr' > itr)
             /\ ~Stepped.ret => pc' = "done"]_vars
    /\ [](pc \in {"loop", "done"} => (itr <= Len(text) /\ steps <= Len(text) + 1))

\* C26 witness: a text of three characters, a token and a tag, has been
\* drained with include_tags off in two calls of ProcessStep, the second of
\* which skipped the tag, pushed nothing and returned true
C26_Witness ==
    /\ pc = "done"
    /\ Len(text) = 3
    /\ text[2] = "{"
    /\ text[3] = "}"
    /\ steps = 2
    /\ ~include_tags
    /\ itr = 3
    /\ result
    /\ Len(tokens) = 1

\* the tokens of list that are left when the tags (comments) are taken out
\* unless the flag for them is on
RECURSIVE WithoutExcluded(_, _, _)
WithoutExcluded(list, inc_comments, inc_tags) ==
    IF list = <<>> THEN <<>>
    ELSE IF \/ (Head(list).type = "kTag" /\ ~inc_tags)
            \/ (Head(list).type = "kComment" /\ ~inc_comments)
    THEN WithoutExcluded(Tail(list), inc_comments, inc_tags)
    ELSE <<Head(list)>> \o WithoutExcluded(Tail(list), inc_comments, inc_tags)

\* C27: for every text the tokens that a drain leaves with include_tags or
\* include_comments off are the tokens that it leaves with both flags on,
\* without the tag tokens or the comment tokens, also for a text that begins
\* with a tag or a comment
C27_FlagOffOnlyFilters ==
    pc = "done" =>
        tokens = WithoutExcluded(DrainAll(text, 0, <<>>, TRUE, TRUE),
                                 include_comments, include_tags)

\* the lexer's state after the loop over whitespace and comments of the call
\* of ProcessStep that comes next
AtSwitch == WhiteCommentLoop(text, itr, tokens, include_comments)

\* the call of ProcessStep that comes next reaches the scanner switch
ReachesSwitch ==
    /\ pc = "loop"
    /\ ~IsEnd(text, itr)
    /\ ~BackIsError(AtSwitch.tokens)
    /\ ~IsEnd(text, AtSwitch.itr)

\* C30: no assertion of the lexer fails: the scanner switch of ProcessStep is
\* never reached with a character of type kWhite, kComment or kError,
\* NewickLexer::ScanNumber is entered with the character : alone, and
\* NewickLexer::ScanTag is entered with } and pushes its error, or with {
C30_NoAssertionFires ==
    /\ ~asserted
    /\ ReachesSwitch =>
          /\ GetCharType(text, AtSwitch.itr) \notin {"kWhite", "kComment", "kError"}
          /\ GetCharType(text, AtSwitch.itr) = "kNumber" => GetChar(text, AtSwitch.itr) = ":"
          /\ GetCharType(text, AtSwitch.itr) = "kTag" => GetChar(text, AtSwitch.itr) \in {"{", "}"}

\* C30 witness: the text {}: has been drained: ScanTag was entered with { and
\* ScanNumber with :, and no assertion has failed
C30_Witness ==
    /\ pc = "done"
    /\ text = <<"{", "}", ":">>
    /\ include_tags
    /\ Len(tokens) = 2
    /\ tokens[1].type = "kTag"
    /\ tokens[2].type = "kNumber"
    /\ ~asserted

IsPrefixOf(a, b) == Len(a) <= Len(b) /\ SubSeq(b, 1, Len(a)) = a

\* what has been written to stream s is a sequence of whole messages, each
\* followed by its own end of line, but for a last message being written
WholeMessages(s) ==
    \A i \in 1..Len(ostreams[s]) :
        IF i % 2 = 1 THEN ostreams[s][i].part = "msg"
        ELSE /\ ostreams[s][i].part = "endl"
             /\ ostreams[s][i].msg = ostreams[s][i - 1].msg

\* the messages of which something has been written to stream s
MessagesBegun(s) == (Len(ostreams[s]) + 1) \div 2

RECURSIVE CompletedBy(_)
\* the log statements that the threads of T have completed
CompletedBy(T) ==
    IF T = {} THEN 0
    ELSE LET t == CHOOSE x \in T : TRUE
         IN  log_done[t] + CompletedBy(T \ {t})

\* C29: the process-wide log state is consistent under concurrent logging:
\* when n log statements have completed and none is running, count_ is n, and
\* two threads never stand at the write of last_clock_ together
C29_LogStateConsistent ==
    log_pc # <<>> =>
        /\ (\A t \in LogThreads : log_pc[t] = "idle") => count_ = CompletedBy(LogThreads)
        /\ \A t1, t2 \in LogThreads :
               (log_pc[t1] = "rundiff" /\ log_pc[t2] = "rundiff") => t1 = t2


====
